---- MODULE Spec2Model ----
(***************************************************************************)
(* A model of the Lox tree-walking interpreter: the environment stack,     *)
(* the evaluator, the scanner and the run() driver.                        *)
(*                                                                         *)
(* Each component has its own specification (SpecEnv, SpecInterp, ...).    *)
(* The pure operators (EnvGet, Evaluate, Execute, ...) follow the Rust     *)
(* functions of the same name; the actions apply them to the state.        *)
(***************************************************************************)
EXTENDS Integers, Sequences, FiniteSets, TLC

VARIABLES
    environments,   \* SpecEnv: EnvironmentStack.environments of the stack under test
    env_last,       \* SpecEnv: the last call, its arguments, the stack before it, its result
    statements,     \* the Vec<Stmt> given to Interpreter::interpret
    pc,             \* interpret: the index of the next statement of its for loop
    control,        \* "interpret" in the loop, "returned" after it, "hung" in a loop that never ends
    interpreter,    \* Interpreter { error_reporter, environment }
    stdout,         \* the lines printed by println!
    stderr,         \* the lines printed by eprintln!
    block_log,      \* the execute_block calls that returned: depth at entry, at exit, Ok or Err
    scanner,        \* Scanner, with what it reported and whether it panicked
    scan_control,   \* scan_tokens: "scanning" in its loop, "returned", "panicked"
    parser,         \* Parser, with what it reported
    run_pc,         \* run(): the call it is about to make, "returned", "exited", "panicked"
    exit_code,      \* the status the process exited with, -1 while it runs
    parse_control,  \* parse: "parse" in its while loop, "returned" after it
    parse_log,      \* the declaration calls of parse that returned: cursor at entry, where
                    \* the error was raised, cursor at exit, the statement, the reports
    executed        \* the top-level statements executed: index, status, environment before and
                    \* after, lines printed, error

envVars == <<environments, env_last>>

interpVars == <<statements, pc, control, interpreter, stdout, stderr, block_log, executed>>

scanVars == <<scanner, scan_control>>

runVars == <<parser, run_pc, exit_code>>

parseVars == <<parse_control, parse_log>>

vars == <<envVars, interpVars, scanVars, runVars, parseVars>>

(***************************************************************************)
(* tokens.rs: Object and Token                                             *)
(***************************************************************************)

\* Object::Number(f64). A float is modelled by an exact fraction num/den with
\* den >= 0; den = 0 stands for the IEEE values: num > 0 is +inf, num < 0 is
\* -inf and num = 0 is NaN.
Number(n) == [kind |-> "Number", num |-> n, den |-> 1]

String(s) == [kind |-> "String", s |-> s]

Boolean(b) == [kind |-> "Boolean", b |-> b]

Nil == [kind |-> "Nil"]

\* Option::None for Token.literal
None == [kind |-> "None"]

Token(token_type, lexeme, literal, line) ==
    [token_type |-> token_type, lexeme |-> lexeme, literal |-> literal, line |-> line]

\* RuntimeError { message, token }
RuntimeError(message, token) == [message |-> message, token |-> token]

(***************************************************************************)
(* Object::Number arithmetic (f64)                                         *)
(*                                                                         *)
(* Fractions are kept in lowest terms, so equal numbers are equal records. *)
(* The rounding of f64 and the sign of zero are not modelled: the programs *)
(* of the model compute with small integers and their quotients.           *)
(***************************************************************************)

Abs(n) == IF n < 0 THEN -n ELSE n

Sign(n) == IF n < 0 THEN -1 ELSE IF n > 0 THEN 1 ELSE 0

RECURSIVE Gcd(_, _)
Gcd(a, b) == IF b = 0 THEN a ELSE Gcd(b, a % b)

\* the f64 of the fraction n/d, d > 0
Frac(n, d) ==
    LET g == Gcd(Abs(n), d)
    IN  [kind |-> "Number", num |-> n \div g, den |-> d \div g]

NaN == [kind |-> "Number", num |-> 0, den |-> 0]

\* +inf for s > 0, -inf for s < 0, NaN for s = 0
Inf(s) == [kind |-> "Number", num |-> Sign(s), den |-> 0]

IsNaN(x) == x.den = 0 /\ x.num = 0

\* f64 negation
NumNeg(x) == [x EXCEPT !.num = -x.num]

\* f64 addition
NumAdd(x, y) ==
    IF x.den > 0 /\ y.den > 0 THEN Frac(x.num * y.den + y.num * x.den, x.den * y.den)
    ELSE IF IsNaN(x) \/ IsNaN(y) THEN NaN
    ELSE IF x.den = 0 /\ y.den = 0 THEN (IF x.num = y.num THEN x ELSE NaN)
    ELSE IF x.den = 0 THEN x ELSE y

\* f64 subtraction
NumSub(x, y) == NumAdd(x, NumNeg(y))

\* f64 multiplication
NumMul(x, y) ==
    IF x.den > 0 /\ y.den > 0 THEN Frac(x.num * y.num, x.den * y.den)
    ELSE Inf(Sign(x.num) * Sign(y.num))

\* f64 division
NumDiv(x, y) ==
    IF IsNaN(x) \/ IsNaN(y) THEN NaN
    ELSE IF x.den = 0 THEN (IF y.den = 0 THEN NaN
                            ELSE Inf(x.num * (IF y.num < 0 THEN -1 ELSE 1)))
    ELSE IF y.den = 0 THEN Frac(0, 1)
    ELSE IF y.num = 0 THEN Inf(x.num)
    ELSE Frac(x.num * y.den * Sign(y.num), x.den * Abs(y.num))

\* f64 <
NumLess(x, y) ==
    IF IsNaN(x) \/ IsNaN(y) THEN FALSE
    ELSE IF x.den = 0 \/ y.den = 0
         THEN (IF x.den = 0 /\ y.den = 0 THEN x.num < y.num
               ELSE IF x.den = 0 THEN x.num < 0 ELSE y.num > 0)
    ELSE x.num * y.den < y.num * x.den

\* f64 ==
NumEq(x, y) == ~IsNaN(x) /\ ~IsNaN(y) /\ x = y

(***************************************************************************)
(* expressions.rs and statements.rs: Expr and Stmt                         *)
(***************************************************************************)

ExprUnary(op, right) == [type |-> "Unary", op |-> op, right |-> right]

ExprBinary(left, op, right) ==
    [type |-> "Binary", left |-> left, op |-> op, right |-> right]

ExprCall(callee, paren, args) ==
    [type |-> "Call", callee |-> callee, paren |-> paren, args |-> args]

ExprGrouping(expr) == [type |-> "Grouping", expr |-> expr]

ExprLiteral(value) == [type |-> "Literal", value |-> value]

ExprVariable(name) == [type |-> "Variable", name |-> name]

ExprAssignment(name, value) == [type |-> "Assignment", name |-> name, value |-> value]

ExprLogical(left, op, right) ==
    [type |-> "Logical", left |-> left, op |-> op, right |-> right]

StmtPrint(expr) == [type |-> "Print", expr |-> expr]

StmtBlock(stmts) == [type |-> "Block", statements |-> stmts]

StmtExpression(expr) == [type |-> "Expression", expr |-> expr]

\* else_branch is a statement or None
StmtIf(condition, then_branch, else_branch) ==
    [type |-> "If", condition |-> condition, then_branch |-> then_branch,
     else_branch |-> else_branch]

\* initializer is an expression or None
StmtVar(name, initializer) == [type |-> "Var", name |-> name, initializer |-> initializer]

StmtWhile(condition, body) == [type |-> "While", condition |-> condition, body |-> body]

(***************************************************************************)
(* environment.rs: EnvironmentStack                                        *)
(***************************************************************************)

\* HashMap::new()
EmptyMap == [x \in {} |-> Nil]

\* HashMap::insert
MapInsert(m, k, v) == [x \in DOMAIN m \cup {k} |-> IF x = k THEN v ELSE m[x]]

\* EnvironmentStack::new
EnvNew == <<EmptyMap>>

\* EnvironmentStack::push_environment
EnvPush(envs) == Append(envs, EmptyMap)

EnvPop_noGuard(envs) == SubSeq(envs, 1, Len(envs) - 1)

\* EnvironmentStack::pop_environment
EnvPop(envs) ==
    IF Len(envs) > 1 THEN SubSeq(envs, 1, Len(envs) - 1) ELSE envs

EnvDefine_outerFirst(envs, name, value) ==
    LET defining == {i \in 1..Len(envs) : name.lexeme \in DOMAIN envs[i]}
        i == IF defining = {} THEN Len(envs)
             ELSE CHOOSE j \in defining : \A k \in defining : k <= j
    IN  [envs EXCEPT ![i] = MapInsert(envs[i], name.lexeme, value)]

\* EnvironmentStack::define (with current_environment: the last element)
EnvDefine(envs, name, value) ==
    [envs EXCEPT ![Len(envs)] = MapInsert(envs[Len(envs)], name.lexeme, value)]

\* EnvironmentStack::define_global
EnvDefineGlobal(envs, name, value) ==
    [envs EXCEPT ![1] = MapInsert(envs[1], name, value)]

UndefinedVariable(name) ==
    RuntimeError(<<"Undefined variable '", name.lexeme, "'.">>, name)

\* the loop of get: environments.iter().rev(), from index i down to 1
RECURSIVE GetFrom(_, _, _)
GetFrom(envs, i, name) ==
    IF i = 0 THEN [ok |-> FALSE, error |-> UndefinedVariable(name)]
    ELSE IF name.lexeme \in DOMAIN envs[i]
         THEN [ok |-> TRUE, value |-> envs[i][name.lexeme]]
         ELSE GetFrom(envs, i - 1, name)

\* a get that walks the stack from the global scope upwards
RECURSIVE GetFromBottom(_, _, _)
GetFromBottom(envs, i, name) ==
    IF i > Len(envs) THEN [ok |-> FALSE, error |-> UndefinedVariable(name)]
    ELSE IF name.lexeme \in DOMAIN envs[i]
         THEN [ok |-> TRUE, value |-> envs[i][name.lexeme]]
         ELSE GetFromBottom(envs, i + 1, name)

EnvGet_bottomUp(envs, name) == GetFromBottom(envs, 1, name)

\* EnvironmentStack::get
EnvGet(envs, name) == GetFrom(envs, Len(envs), name)

\* the loop of assign: environments.iter_mut().rev(), from index i down to 1
RECURSIVE AssignFrom(_, _, _, _)
AssignFrom(envs, i, name, value) ==
    IF i = 0 THEN [ok |-> FALSE, error |-> UndefinedVariable(name), envs |-> envs]
    ELSE IF name.lexeme \in DOMAIN envs[i]
         THEN [ok |-> TRUE,
               envs |-> [envs EXCEPT ![i] = MapInsert(envs[i], name.lexeme, value)]]
         ELSE AssignFrom(envs, i - 1, name, value)

\* an assign that creates a global binding when the name is undefined
EnvAssign_implicitGlobal(envs, name, value) ==
    LET r == AssignFrom(envs, Len(envs), name, value)
    IN  IF r.ok THEN r
        ELSE [ok |-> TRUE, envs |-> EnvDefineGlobal(envs, name.lexeme, value)]

\* EnvironmentStack::assign
EnvAssign(envs, name, value) == AssignFrom(envs, Len(envs), name, value)

(***************************************************************************)
(* interpreter.rs: Interpreter                                             *)
(*                                                                         *)
(* evaluate takes the environment stack and returns Ok(value) or           *)
(* Err(error) together with the stack it leaves. execute takes st, the     *)
(* interpreter's environment, what it printed and the log of the           *)
(* execute_block calls, and returns status "ok" or "err" with the st it    *)
(* leaves, or "div" when the statement does not return.                    *)
(***************************************************************************)

\* the iterations of one while statement after which it counts as not returning
MaxIter == 3

Ok(value, envs) == [ok |-> TRUE, value |-> value, envs |-> envs]

Err(error, envs) == [ok |-> FALSE, error |-> error, envs |-> envs]

\* a truthiness for which 0 and the empty string are falsy too
IsTruthy_zeroAndEmptyFalsy(value) ==
    CASE value.kind = "Nil" -> FALSE
      [] value.kind = "Boolean" -> value.b
      [] value.kind = "Number" -> value.num # 0 \/ value.den = 0
      [] value.kind = "String" -> value.s # ""

\* Interpreter::is_truthy
IsTruthy(value) ==
    CASE value.kind = "Nil" -> FALSE
      [] value.kind = "Boolean" -> value.b
      [] OTHER -> TRUE

\* an equality of truthiness
IsEqual_truthiness(a, b) ==
    LET truthy(v) == v.kind \notin {"Nil", "Boolean"} \/ (v.kind = "Boolean" /\ v.b)
    IN  truthy(a) = truthy(b)

\* Interpreter::is_equal
IsEqual(a, b) ==
    CASE a.kind = "Number" /\ b.kind = "Number" -> NumEq(a, b)
      [] a.kind = "String" /\ b.kind = "String" -> a.s = b.s
      [] a.kind = "Boolean" /\ b.kind = "Boolean" -> a.b = b.b
      [] a.kind = "Nil" /\ b.kind = "Nil" -> TRUE
      [] OTHER -> FALSE

\* Interpreter::check_number_operand
CheckNumberOperand(operator, operand) ==
    IF operand.kind = "Number" THEN [ok |-> TRUE]
    ELSE [ok |-> FALSE, error |-> RuntimeError("Operand must be a number", operator)]

\* a check that no pair of operands passes
CheckNumberOperands_never(op, left, right) ==
    [ok |-> FALSE, error |-> RuntimeError("Operands must be two numbers", op)]

\* Interpreter::check_number_operands
CheckNumberOperands(op, left, right) ==
    IF left.kind = "Number" /\ right.kind = "Number" THEN [ok |-> TRUE]
    ELSE [ok |-> FALSE, error |-> RuntimeError("Operands must be two numbers", op)]

\* the match on op.token_type of evaluate_binary_expr, on the operands' values
ApplyBinary(op, left, right, envs) ==
    LET t == op.token_type
        nums == CheckNumberOperands(op, left, right)
    IN  CASE t \in {"Minus", "Slash", "Star", "Greater", "GreaterEqual", "Less", "LessEqual"} ->
                IF ~nums.ok THEN Err(nums.error, envs)
                ELSE Ok(CASE t = "Minus" -> NumSub(left, right)
                          [] t = "Slash" -> NumDiv(left, right)
                          [] t = "Star" -> NumMul(left, right)
                          [] t = "Greater" -> Boolean(NumLess(right, left))
                          [] t = "GreaterEqual" ->
                                Boolean(NumLess(right, left) \/ NumEq(left, right))
                          [] t = "Less" -> Boolean(NumLess(left, right))
                          [] t = "LessEqual" ->
                                Boolean(NumLess(left, right) \/ NumEq(left, right)),
                        envs)
          [] t = "Plus" ->
                IF left.kind = "Number" /\ right.kind = "Number"
                THEN Ok(NumAdd(left, right), envs)
                ELSE IF left.kind = "String" /\ right.kind = "String"
                THEN Ok(String(left.s \o right.s), envs)
                ELSE Err(RuntimeError("Operands must be two numbers or two strings", op),
                         envs)
          [] t = "BangEqual" -> Ok(Boolean(~IsEqual(left, right)), envs)
          [] t = "EqualEqual" -> Ok(Boolean(IsEqual(left, right)), envs)
          [] OTHER -> Err(RuntimeError("Unhandled token type", op), envs)

RECURSIVE Evaluate(_, _)

\* an assignment that defines the name in the top scope
EvaluateAssignmentExpr_defineTop(name, value, envs) ==
    LET v == Evaluate(value, envs)
    IN  IF ~v.ok THEN v ELSE Ok(v.value, EnvDefine(v.envs, name, v.value))

\* Interpreter::evaluate_assignment_expr
EvaluateAssignmentExpr(name, value, envs) ==
    LET v == Evaluate(value, envs)
    IN  IF ~v.ok THEN v
        ELSE LET a == EnvAssign(v.envs, name, v.value)
             IN  IF ~a.ok THEN Err(a.error, a.envs) ELSE Ok(v.value, a.envs)

\* Interpreter::evaluate_binary_expr
EvaluateBinaryExpr(left, op, right, envs) ==
    LET l == Evaluate(left, envs)
    IN  IF ~l.ok THEN l
        ELSE LET r == Evaluate(right, l.envs)
             IN  IF ~r.ok THEN r ELSE ApplyBinary(op, l.value, r.value, r.envs)

\* Interpreter::evaluate_grouping_expr
EvaluateGroupingExpr(expr, envs) == Evaluate(expr, envs)

\* Interpreter::evaluate_literal_expr
EvaluateLiteralExpr(literal, envs) == Ok(literal, envs)

\* a logical operator that evaluates both operands before it looks at the left one
EvaluateLogicalExpr_eager(left, op, right, envs) ==
    LET l == Evaluate(left, envs)
    IN  IF ~l.ok THEN l
        ELSE LET r == Evaluate(right, l.envs)
             IN  IF ~r.ok THEN r
                 ELSE IF op.token_type = "Or"
                      THEN (IF IsTruthy(l.value) THEN Ok(l.value, r.envs) ELSE r)
                      ELSE (IF ~IsTruthy(l.value) THEN Ok(l.value, r.envs) ELSE r)

\* Interpreter::evaluate_logical_expr
EvaluateLogicalExpr(left, op, right, envs) ==
    LET l == Evaluate(left, envs)
    IN  IF ~l.ok THEN l
        ELSE IF op.token_type = "Or"
             THEN (IF IsTruthy(l.value) THEN l ELSE Evaluate(right, l.envs))
             ELSE (IF ~IsTruthy(l.value) THEN l ELSE Evaluate(right, l.envs))

\* Interpreter::evaluate_unary_expr
EvaluateUnaryExpr(operator, right, envs) ==
    LET r == Evaluate(right, envs)
    IN  IF ~r.ok THEN r
        ELSE CASE operator.token_type = "Minus" ->
                    LET c == CheckNumberOperand(operator, r.value)
                    IN  IF ~c.ok THEN Err(c.error, r.envs)
                        ELSE Ok(NumNeg(r.value), r.envs)
               [] operator.token_type = "Bang" -> Ok(Boolean(~IsTruthy(r.value)), r.envs)
               [] OTHER -> Err(RuntimeError("Invalid operator", operator), r.envs)

\* Interpreter::evaluate_variable_expr
EvaluateVariableExpr(name, envs) ==
    LET g == EnvGet(envs, name)
    IN  IF g.ok THEN Ok(g.value, envs) ELSE Err(g.error, envs)

\* what evaluate gives for a variant its match has no arm for: no Value and
\* no RuntimeError
Unhandled == [unhandled |-> "Expr::Call"]

\* Interpreter::evaluate (the match has no arm for Expr::Call)
Evaluate(expr, envs) ==
    CASE expr.type = "Literal" -> EvaluateLiteralExpr(expr.value, envs)
      [] expr.type = "Grouping" -> EvaluateGroupingExpr(expr.expr, envs)
      [] expr.type = "Unary" -> EvaluateUnaryExpr(expr.op, expr.right, envs)
      [] expr.type = "Binary" -> EvaluateBinaryExpr(expr.left, expr.op, expr.right, envs)
      [] expr.type = "Variable" -> EvaluateVariableExpr(expr.name, envs)
      [] expr.type = "Assignment" -> EvaluateAssignmentExpr(expr.name, expr.value, envs)
      [] expr.type = "Logical" -> EvaluateLogicalExpr(expr.left, expr.op, expr.right, envs)
      [] expr.type = "Call" -> Err(Unhandled, envs)

\* impl fmt::Display for Object (tokens.rs); the decimal digits of a number
\* that is no integer are not modelled, it is shown as num/den
Display(value) ==
    CASE value.kind = "String" -> "\"" \o value.s \o "\""
      [] value.kind = "Number" ->
            IF value.den = 1 THEN ToString(value.num)
            ELSE IF value.den = 0
                 THEN (IF value.num > 0 THEN "inf"
                       ELSE IF value.num < 0 THEN "-inf" ELSE "NaN")
            ELSE ToString(value.num) \o "/" \o ToString(value.den)
      [] value.kind = "Boolean" -> IF value.b THEN "true" ELSE "false"
      [] value.kind = "Nil" -> "nil"

StOk(st) == [status |-> "ok", st |-> st]

StErr(error, st) == [status |-> "err", error |-> error, st |-> st]

StDiv(st) == [status |-> "div", st |-> st]

\* Interpreter::execute_expression_statement
ExecuteExpressionStatement(expr, st) ==
    LET v == Evaluate(expr, st.environment)
        st1 == [st EXCEPT !.environment = v.envs]
    IN  IF ~v.ok THEN StErr(v.error, st1) ELSE StOk(st1)

\* Interpreter::execute_print_statement
ExecutePrintStatement(expr, st) ==
    LET v == Evaluate(expr, st.environment)
        st1 == [st EXCEPT !.environment = v.envs]
    IN  IF ~v.ok THEN StErr(v.error, st1)
        ELSE StOk([st1 EXCEPT !.stdout = Append(@, Display(v.value))])

\* an execute_var_statement that defines the name in the global scope
ExecuteVarStatement_defineGlobal(name, initializer, st) ==
    IF initializer # None
    THEN LET v == Evaluate(initializer, st.environment)
         IN  IF ~v.ok THEN StErr(v.error, [st EXCEPT !.environment = v.envs])
             ELSE StOk([st EXCEPT !.environment =
                            EnvDefineGlobal(v.envs, name.lexeme, v.value)])
    ELSE StOk([st EXCEPT !.environment = EnvDefineGlobal(@, name.lexeme, Nil)])

\* an execute_var_statement that binds the name to Nil when the initializer fails
ExecuteVarStatement_nilOnError(name, initializer, st) ==
    IF initializer # None
    THEN LET v == Evaluate(initializer, st.environment)
         IN  IF ~v.ok
             THEN StErr(v.error, [st EXCEPT !.environment = EnvDefine(v.envs, name, Nil)])
             ELSE StOk([st EXCEPT !.environment = EnvDefine(v.envs, name, v.value)])
    ELSE StOk([st EXCEPT !.environment = EnvDefine(@, name, Nil)])

\* Interpreter::execute_var_statement
ExecuteVarStatement(name, initializer, st) ==
    IF initializer # None
    THEN LET v == Evaluate(initializer, st.environment)
         IN  IF ~v.ok THEN StErr(v.error, [st EXCEPT !.environment = v.envs])
             ELSE StOk([st EXCEPT !.environment = EnvDefine(v.envs, name, v.value)])
    ELSE StOk([st EXCEPT !.environment = EnvDefine(@, name, Nil)])

RECURSIVE Execute(_, _)

\* the for loop of execute_block, from statement i on
RECURSIVE ExecuteStatements(_, _, _)
ExecuteStatements(stmts, i, st) ==
    IF i > Len(stmts) THEN StOk(st)
    ELSE LET r == Execute(stmts[i], st)
         IN  IF r.status = "ok" THEN ExecuteStatements(stmts, i + 1, r.st) ELSE r

\* what execute_block leaves when it returns: from is st at entry, r the outcome
\* of the loop, envs the stack it returns with; the call is logged
BlockReturn(from, r, envs) ==
    [r EXCEPT !.st = [@ EXCEPT
        !.environment = envs,
        !.block_log = Append(@, [entry |-> Len(from.environment),
                                 exit |-> Len(envs),
                                 ok |-> r.status = "ok"])]]

\* an execute_block that runs the statements in the scope of its caller
ExecuteBlock_noScope(stmts, st) ==
    LET r == ExecuteStatements(stmts, 1, st)
    IN  IF r.status = "div" THEN r
        ELSE BlockReturn(st, r, r.st.environment)

\* an execute_block that returns the error without popping its scope
ExecuteBlock_noPopOnErr(stmts, st) ==
    LET r == ExecuteStatements(stmts, 1,
                               [st EXCEPT !.environment = EnvPush(@)])
    IN  IF r.status = "div" THEN r
        ELSE IF r.status = "err" THEN BlockReturn(st, r, r.st.environment)
        ELSE BlockReturn(st, r, EnvPop(r.st.environment))

\* an execute_block that pops its scope and returns Ok when a statement failed
ExecuteBlock_swallowError(stmts, st) ==
    LET r == ExecuteStatements(stmts, 1,
                               [st EXCEPT !.environment = EnvPush(@)])
    IN  IF r.status = "div" THEN r
        ELSE BlockReturn(st, StOk(r.st), EnvPop(r.st.environment))

\* an execute_block that restores the scopes it was entered with when a
\* statement failed
ExecuteBlock_rollback(stmts, st) ==
    LET r == ExecuteStatements(stmts, 1,
                               [st EXCEPT !.environment = EnvPush(@)])
    IN  IF r.status = "div" THEN r
        ELSE IF r.status = "err" THEN BlockReturn(st, r, st.environment)
        ELSE BlockReturn(st, r, EnvPop(r.st.environment))

\* Interpreter::execute_block
ExecuteBlock(stmts, st) ==
    LET r == ExecuteStatements(stmts, 1,
                               [st EXCEPT !.environment = EnvPush(@)])
    IN  IF r.status = "div" THEN r
        ELSE IF r.status = "err" THEN BlockReturn(st, r, EnvPop(r.st.environment))
        ELSE BlockReturn(st, r, EnvPop(r.st.environment))

\* Interpreter::execute_block_statement
ExecuteBlockStatement(stmts, st) == ExecuteBlock(stmts, st)

\* an execute_if_statement that goes on to the else-branch after the then-branch
ExecuteIfStatement_bothBranches(condition, then_branch, else_branch, st) ==
    LET c == Evaluate(condition, st.environment)
        st1 == [st EXCEPT !.environment = c.envs]
    IN  IF ~c.ok THEN StErr(c.error, st1)
        ELSE IF IsTruthy(c.value)
             THEN LET t == Execute(then_branch, st1)
                  IN  IF t.status = "ok" /\ else_branch # None
                      THEN Execute(else_branch, t.st) ELSE t
        ELSE IF else_branch # None THEN Execute(else_branch, st1)
        ELSE StOk(st1)

\* Interpreter::execute_if_statement
ExecuteIfStatement(condition, then_branch, else_branch, st) ==
    LET c == Evaluate(condition, st.environment)
        st1 == [st EXCEPT !.environment = c.envs]
    IN  IF ~c.ok THEN StErr(c.error, st1)
        ELSE IF IsTruthy(c.value) THEN Execute(then_branch, st1)
        ELSE IF else_branch # None THEN Execute(else_branch, st1)
        ELSE StOk(st1)

\* a loop that runs the body before it evaluates the condition
RECURSIVE WhileLoop_bodyFirst(_, _, _, _)
WhileLoop_bodyFirst(condition, body, st, fuel) ==
    LET b == Execute(body, st)
        c == Evaluate(condition, b.st.environment)
        st1 == [b.st EXCEPT !.environment = c.envs]
    IN  IF b.status # "ok" THEN b
        ELSE IF ~c.ok THEN StErr(c.error, st1)
        ELSE IF ~IsTruthy(c.value) THEN StOk(st1)
        ELSE IF fuel = 0 THEN StDiv(st1)
        ELSE WhileLoop_bodyFirst(condition, body, st1, fuel - 1)

\* the loop of execute_while_statement, with fuel iterations left
RECURSIVE WhileLoop(_, _, _, _)
WhileLoop(condition, body, st, fuel) ==
    LET c == Evaluate(condition, st.environment)
        st1 == [st EXCEPT !.environment = c.envs]
    IN  IF ~c.ok THEN StErr(c.error, st1)
        ELSE IF ~IsTruthy(c.value) THEN StOk(st1)
        ELSE IF fuel = 0 THEN StDiv(st1)
        ELSE LET b == Execute(body, st1)
             IN  IF b.status = "ok" THEN WhileLoop(condition, body, b.st, fuel - 1)
                 ELSE b

\* Interpreter::execute_while_statement
ExecuteWhileStatement(condition, body, st) == WhileLoop(condition, body, st, MaxIter)

\* Interpreter::execute
Execute(stmt, st) ==
    CASE stmt.type = "Print" -> ExecutePrintStatement(stmt.expr, st)
      [] stmt.type = "Expression" -> ExecuteExpressionStatement(stmt.expr, st)
      [] stmt.type = "Var" -> ExecuteVarStatement(stmt.name, stmt.initializer, st)
      [] stmt.type = "Block" -> ExecuteBlockStatement(stmt.statements, st)
      [] stmt.type = "If" ->
            ExecuteIfStatement(stmt.condition, stmt.then_branch, stmt.else_branch, st)
      [] stmt.type = "While" -> ExecuteWhileStatement(stmt.condition, stmt.body, st)

(***************************************************************************)
(* error_reporter.rs: ErrorReporter                                        *)
(***************************************************************************)

\* ErrorReporter::new
ReporterNew == [had_error |-> FALSE, had_runtime_error |-> FALSE]

\* a runtime_error that sets the flag of the compile-time errors
ReporterRuntimeError_hadError(reporter) == [reporter EXCEPT !.had_error = TRUE]

\* ErrorReporter::runtime_error: the flag it sets
ReporterRuntimeError(reporter) == [reporter EXCEPT !.had_runtime_error = TRUE]

\* ErrorReporter::runtime_error: the line it prints
RuntimeErrorLine(error) == <<error.message, " \n[line ", error.token.line, "]">>

\* ErrorReporter::report: the flag it sets
ReporterReport(reporter) == [reporter EXCEPT !.had_error = TRUE]

\* ErrorReporter::report: the line it prints
ReportLine(line, loc, message) == <<"[line ", line, "] Error ", loc, ": ", message>>

(***************************************************************************)
(* scanner.rs: Scanner                                                     *)
(*                                                                         *)
(* The source is a sequence of chars; a char is written as a string of     *)
(* length 1, or as "<xx>" for a char whose UTF-8 encoding has two bytes.   *)
(* A scanner value sc is the struct together with what it reported and     *)
(* whether a call panicked; a panicked scanner is left as it is by every   *)
(* later step of the same call.                                            *)
(***************************************************************************)

\* the chars of the model that take two bytes in UTF-8: e-acute (alphabetic)
\* and the fraction one half (numeric)
TwoByteChars == {"<e9>", "<bd>"}

\* char::len_utf8
Utf8Len(c) == IF c \in TwoByteChars THEN 2 ELSE 1

Digits == {"0", "1", "2", "3", "4", "5", "6", "7", "8", "9"}

Letters ==
    {"a", "b", "c", "d", "e", "f", "g", "h", "i", "j", "k", "l", "m",
     "n", "o", "p", "q", "r", "s", "t", "u", "v", "w", "x", "y", "z"}

\* char::is_numeric
IsNumeric(c) == c \in Digits \cup {"<bd>"}

\* char::is_alphabetic
IsAlphabetic(c) == c \in Letters \cup {"<e9>"}

\* char::is_alphanumeric
IsAlphanumeric(c) == IsAlphabetic(c) \/ IsNumeric(c)

\* '\0'
Nul == "<nul>"

\* the char read by a call that panics
NoChar == "<panic>"

\* String::len: the length in bytes
RECURSIVE ByteLen(_)
ByteLen(source) ==
    IF source = <<>> THEN 0 ELSE Utf8Len(Head(source)) + ByteLen(Tail(source))

\* the String of a sequence of chars
RECURSIVE Text(_)
Text(chars) == IF chars = <<>> THEN "" ELSE Head(chars) \o Text(Tail(chars))

\* the chars before which byte offset o falls, when o is a char boundary
CharIndexOf(source, o) ==
    {k \in 0..Len(source) : ByteLen(SubSeq(source, 1, k)) = o}

\* &source[from..to]: a slice by byte offsets, which panics unless from <= to
\* and both are char boundaries
Slice(source, from, to) ==
    IF from <= to /\ CharIndexOf(source, from) # {} /\ CharIndexOf(source, to) # {}
    THEN [ok |-> TRUE,
          chars |-> SubSeq(source, (CHOOSE k \in CharIndexOf(source, from) : TRUE) + 1,
                           CHOOSE k \in CharIndexOf(source, to) : TRUE)]
    ELSE [ok |-> FALSE]

\* Scanner::new
ScannerNew(source) ==
    [source |-> source, tokens |-> <<>>, error_reporter |-> ReporterNew,
     start |-> 0, current |-> 0, line |-> 1,
     reported |-> <<>>, panicked |-> FALSE, past_end |-> FALSE]

ScannerPanic(sc) == [sc EXCEPT !.panicked = TRUE]

\* Scanner::char_at: source.chars().nth(index).expect(..)
CharAt(source, index) ==
    IF index < Len(source) THEN source[index + 1] ELSE NoChar

\* Scanner::is_at_end
IsAtEnd(sc) == sc.current >= ByteLen(sc.source)

\* Scanner::peek
Peek(sc) == IF IsAtEnd(sc) THEN Nul ELSE CharAt(sc.source, sc.current)

\* Scanner::peek_next
PeekNext(sc) ==
    IF sc.current + 1 >= ByteLen(sc.source) THEN Nul
    ELSE CharAt(sc.source, sc.current + 1)

\* the panic of char_at: the cursor was read past the end of the source
PastEnd(sc) == [sc EXCEPT !.panicked = TRUE, !.past_end = TRUE]

\* Scanner::advance: the scanner it leaves (the char it returns is its Peek
\* without the is_at_end test, CharAt(source, current))
Advance(sc) ==
    IF sc.panicked THEN sc
    ELSE IF CharAt(sc.source, sc.current) = NoChar THEN PastEnd(sc)
    ELSE [sc EXCEPT !.current = @ + 1]

\* Scanner::match_token: the scanner it leaves and its answer
MatchToken(sc, expected) ==
    IF sc.panicked THEN [sc |-> sc, matched |-> FALSE]
    ELSE IF IsAtEnd(sc) THEN [sc |-> sc, matched |-> FALSE]
    ELSE IF Peek(sc) = NoChar THEN [sc |-> PastEnd(sc), matched |-> FALSE]
    ELSE IF Peek(sc) # expected THEN [sc |-> sc, matched |-> FALSE]
    ELSE [sc |-> [sc EXCEPT !.current = @ + 1], matched |-> TRUE]

\* Scanner::add_literal_token
AddLiteralToken(sc, token_type, literal) ==
    IF sc.panicked THEN sc
    ELSE LET text == Slice(sc.source, sc.start, sc.current)
         IN  IF ~text.ok THEN ScannerPanic(sc)
             ELSE [sc EXCEPT !.tokens =
                      Append(@, Token(token_type, Text(text.chars), literal, sc.line))]

\* Scanner::add_token
AddToken(sc, token_type) == AddLiteralToken(sc, token_type, None)

\* ErrorReporter::error, on the scanner's reporter
ScannerError(sc, message) ==
    [sc EXCEPT !.error_reporter = ReporterReport(@),
               !.reported = Append(@, ReportLine(sc.line, "", message))]

\* while self.peek().is_numeric() { self.advance(); }
RECURSIVE SkipNumeric(_)
SkipNumeric(sc) ==
    IF sc.panicked THEN sc
    ELSE IF Peek(sc) = NoChar THEN PastEnd(sc)
    ELSE IF IsNumeric(Peek(sc)) THEN SkipNumeric(Advance(sc))
    ELSE sc

DigitValue(c) ==
    CASE c = "0" -> 0 [] c = "1" -> 1 [] c = "2" -> 2 [] c = "3" -> 3 [] c = "4" -> 4
      [] c = "5" -> 5 [] c = "6" -> 6 [] c = "7" -> 7 [] c = "8" -> 8 [] c = "9" -> 9

\* the integer written by a sequence of ASCII digits
RECURSIVE DecimalValue(_)
DecimalValue(chars) ==
    IF chars = <<>> THEN 0
    ELSE 10 * DecimalValue(SubSeq(chars, 1, Len(chars) - 1)) + DigitValue(chars[Len(chars)])

RECURSIVE Pow10(_)
Pow10(k) == IF k = 0 THEN 1 ELSE 10 * Pow10(k - 1)

\* str::parse::<f64> on the texts number() can produce: digits with an
\* optional fraction; Err for a text with a char that is no ASCII digit
ParseF64(chars) ==
    LET dots == {k \in 1..Len(chars) : chars[k] = "."}
        dot == IF dots = {} THEN Len(chars) + 1 ELSE CHOOSE k \in dots : TRUE
        whole == SubSeq(chars, 1, dot - 1)
        fraction == SubSeq(chars, dot + 1, Len(chars))
    IN  IF Cardinality(dots) <= 1 /\ chars # <<>>
           /\ \A k \in 1..Len(chars) : chars[k] \in Digits \cup {"."}
        THEN [ok |-> TRUE,
              value |-> Frac(DecimalValue(whole) * Pow10(Len(fraction))
                                 + DecimalValue(fraction),
                             Pow10(Len(fraction)))]
        ELSE [ok |-> FALSE]

\* a number that takes a '.' whatever follows it
ScanNumber_anyDot(sc) ==
    LET whole == SkipNumeric(sc)
        fraction ==
            IF whole.panicked THEN whole
            ELSE IF Peek(whole) = "." THEN SkipNumeric(Advance(whole))
            ELSE whole
        text == Slice(fraction.source, fraction.start, fraction.current)
    IN  IF fraction.panicked THEN fraction
        ELSE IF ~text.ok THEN ScannerPanic(fraction)
        ELSE IF ~ParseF64(text.chars).ok THEN ScannerPanic(fraction)
        ELSE AddLiteralToken(fraction, "Number", ParseF64(text.chars).value)

\* Scanner::number
ScanNumber(sc) ==
    LET whole == SkipNumeric(sc)
        fraction ==
            IF whole.panicked THEN whole
            ELSE IF Peek(whole) = "." /\ PeekNext(whole) = NoChar THEN PastEnd(whole)
            ELSE IF Peek(whole) = "." /\ IsNumeric(PeekNext(whole))
                 THEN SkipNumeric(Advance(whole))
                 ELSE whole
        text == Slice(fraction.source, fraction.start, fraction.current)
    IN  IF fraction.panicked THEN fraction
        ELSE IF ~text.ok THEN ScannerPanic(fraction)
        ELSE IF ~ParseF64(text.chars).ok THEN ScannerPanic(fraction)
        ELSE AddLiteralToken(fraction, "Number", ParseF64(text.chars).value)

\* a loop of string() that does not count the lines
RECURSIVE SkipString_sameLine(_)
SkipString_sameLine(sc) ==
    IF sc.panicked THEN sc
    ELSE IF Peek(sc) = NoChar THEN PastEnd(sc)
    ELSE IF Peek(sc) # "\"" /\ ~IsAtEnd(sc) THEN SkipString_sameLine(Advance(sc))
    ELSE sc

\* the while loop of string()
RECURSIVE SkipString(_)
SkipString(sc) ==
    IF sc.panicked THEN sc
    ELSE IF Peek(sc) = NoChar THEN PastEnd(sc)
    ELSE IF Peek(sc) # "\"" /\ ~IsAtEnd(sc)
         THEN SkipString(Advance(IF Peek(sc) = "\n"
                                 THEN [sc EXCEPT !.line = @ + 1] ELSE sc))
         ELSE sc

\* a string() that makes a token of an unterminated string too
ScanString_tokenAtEnd(sc) ==
    LET body == SkipString(sc)
        value == Slice(body.source, body.start + 1, body.current)
    IN  IF body.panicked THEN body
        ELSE IF ~IsAtEnd(body) THEN AddLiteralToken(Advance(body), "String", String(""))
        ELSE IF ~value.ok THEN ScannerPanic(body)
        ELSE AddLiteralToken(ScannerError(body, "Unterminated string."), "String",
                             String(Text(value.chars)))

\* Scanner::string
ScanString(sc) ==
    LET body == SkipString(sc)
        closed == Advance(body)
        value == Slice(closed.source, closed.start + 1, closed.current - 1)
    IN  IF body.panicked THEN body
        ELSE IF IsAtEnd(body) THEN ScannerError(body, "Unterminated string.")
        ELSE IF closed.panicked THEN closed
        ELSE IF ~value.ok THEN ScannerPanic(closed)
        ELSE AddLiteralToken(closed, "String", String(Text(value.chars)))

\* the reserved words of identifier()
Keyword(text) ==
    CASE text = "and" -> "And" [] text = "class" -> "Class" [] text = "else" -> "Else"
      [] text = "false" -> "False" [] text = "for" -> "For" [] text = "fun" -> "Fun"
      [] text = "if" -> "If" [] text = "nil" -> "Nil" [] text = "or" -> "Or"
      [] text = "print" -> "Print" [] text = "return" -> "Return"
      [] text = "super" -> "Super" [] text = "this" -> "This" [] text = "true" -> "True"
      [] text = "var" -> "Var" [] text = "while" -> "While"
      [] OTHER -> "Identifier"

\* while self.peek().is_alphanumeric() { self.advance(); }
RECURSIVE SkipAlphanumeric(_)
SkipAlphanumeric(sc) ==
    IF sc.panicked THEN sc
    ELSE IF Peek(sc) = NoChar THEN PastEnd(sc)
    ELSE IF IsAlphanumeric(Peek(sc)) THEN SkipAlphanumeric(Advance(sc))
    ELSE sc

\* Scanner::identifier
ScanIdentifier(sc) ==
    LET word == SkipAlphanumeric(sc)
        text == Slice(word.source, word.start, word.current)
    IN  IF word.panicked THEN word
        ELSE IF ~text.ok THEN ScannerPanic(word)
        ELSE AddToken(word, Keyword(Text(text.chars)))

\* the while loop of a line comment
RECURSIVE SkipComment(_)
SkipComment(sc) ==
    IF sc.panicked THEN sc
    ELSE IF Peek(sc) = NoChar THEN PastEnd(sc)
    ELSE IF Peek(sc) # "\n" /\ ~IsAtEnd(sc) THEN SkipComment(Advance(sc))
    ELSE sc

\* arms that never look at the char that follows
OneOrTwo_oneOnly(sc, two, one) == AddToken(sc, one)

\* the arms of scan_token for a char that may be followed by '='
OneOrTwo(sc, two, one) ==
    LET m == MatchToken(sc, "=")
    IN  IF m.matched THEN AddToken(m.sc, two) ELSE AddToken(m.sc, one)

SingleCharTokens == {"(", ")", "{", "}", ",", ".", "-", "+", ";", "*"}

SingleCharToken(c) ==
    CASE c = "(" -> "LeftParen" [] c = ")" -> "RightParen" [] c = "{" -> "LeftBrace"
      [] c = "}" -> "RightBrace" [] c = "," -> "Comma" [] c = "." -> "Dot"
      [] c = "-" -> "Minus" [] c = "+" -> "Plus" [] c = ";" -> "Semicolon"
      [] c = "*" -> "Star"

\* Scanner::scan_token
ScanToken(sc0) ==
    LET c == CharAt(sc0.source, sc0.current)
        sc == Advance(sc0)
    IN  IF sc.panicked THEN sc
        ELSE CASE c \in SingleCharTokens -> AddToken(sc, SingleCharToken(c))
               [] c = "!" -> OneOrTwo(sc, "BangEqual", "Bang")
               [] c = "=" -> OneOrTwo(sc, "EqualEqual", "Equal")
               [] c = "<" -> OneOrTwo(sc, "LessEqual", "Less")
               [] c = ">" -> OneOrTwo(sc, "GreaterEqual", "Greater")
               [] c = "/" ->
                     LET m == MatchToken(sc, "/")
                     IN  IF m.matched THEN SkipComment(m.sc) ELSE AddToken(m.sc, "Slash")
               [] c \in {" ", "\r", "\t"} -> sc
               [] c = "\n" -> [sc EXCEPT !.line = @ + 1]
               [] c = "\"" -> ScanString(sc)
               [] OTHER ->
                     IF IsNumeric(c) THEN ScanNumber(sc)
                     ELSE IF IsAlphabetic(c) THEN ScanIdentifier(sc)
                     ELSE ScannerError(sc, "Unexpected character.")

\* one iteration of the while loop of scan_tokens
ScanStep(sc) == ScanToken([sc EXCEPT !.start = sc.current])

\* the end of scan_tokens: the Eof token
ScanEof(sc) == [sc EXCEPT !.tokens = Append(@, Token("Eof", "", None, sc.line))]

\* Scanner::scan_tokens
RECURSIVE ScanTokens(_)
ScanTokens(sc) ==
    IF sc.panicked THEN sc
    ELSE IF ~IsAtEnd(sc) THEN ScanTokens(ScanStep(sc))
    ELSE ScanEof(sc)

(***************************************************************************)
(* parser.rs: Parser                                                       *)
(*                                                                         *)
(* A parser value p is the struct with what it reported, whether a call of *)
(* previous() panicked (current was 0) and whether a declaration loop is   *)
(* stuck (an iteration left the cursor where it was, so every later one    *)
(* does the same). A parsing function returns ok (Ok or Err(ParseError)),  *)
(* the node, and the parser it leaves.                                     *)
(***************************************************************************)

\* Parser::new
ParserNew(tokens) ==
    [tokens |-> tokens, current |-> 0, error_reporter |-> ReporterNew, reported |-> <<>>,
     panicked |-> FALSE, stuck |-> FALSE]

\* Parser::peek
ParserPeek(p) == p.tokens[p.current + 1]

\* Parser::previous
ParserPrevious(p) == p.tokens[p.current]

\* Parser::is_at_end
ParserIsAtEnd(p) == ParserPeek(p).token_type = "Eof"

\* Parser::check
ParserCheck(p, type) ==
    IF ParserIsAtEnd(p) THEN FALSE ELSE ParserPeek(p).token_type = type

\* Parser::advance: the parser it leaves; it returns previous(), that is
\* tokens[current - 1], which panics when current is 0
ParserAdvance(p) ==
    IF ~ParserIsAtEnd(p) THEN [p EXCEPT !.current = @ + 1]
    ELSE IF p.current = 0 THEN [p EXCEPT !.panicked = TRUE]
    ELSE p

\* Parser::match_token
ParserMatch(p, types) ==
    IF \E t \in types : ParserCheck(p, t)
    THEN [matched |-> TRUE, p |-> ParserAdvance(p)]
    ELSE [matched |-> FALSE, p |-> p]

\* Parser::error with ErrorReporter::error_at_token
ParserError(p, token, message) ==
    [p EXCEPT !.error_reporter = ReporterReport(@),
              !.reported = Append(@,
                  ReportLine(token.line,
                             IF token.token_type = "Eof" THEN " at end"
                             ELSE " at '" \o token.lexeme \o "'",
                             message))]

POk(node, p) == [ok |-> TRUE, node |-> node, p |-> p]

PErr(p) == [ok |-> FALSE, p |-> p]

\* the ? operator: the rest of the function runs on Ok, Err returns at once
Try(r, Rest(_)) == IF r.ok THEN Rest(r) ELSE r

\* a let binding, with the rest of the function
Bind(v, Rest(_)) == Rest(v)

\* Parser::consume: node is the token consumed
ParserConsume(p, type, message) ==
    IF ParserCheck(p, type) THEN POk(ParserPeek(p), ParserAdvance(p))
    ELSE PErr(ParserError(p, ParserPeek(p), message))

\* the argument count from which finish_call reports "Too many arguments"
MaxArgs == 255

RECURSIVE ParseAssignment(_), ParseUnary(_), ParseStatement(_), ParseDeclaration(_)

\* Parser::expression
ParseExpression(p) == ParseAssignment(p)

\* Parser::primary
ParsePrimary(p) ==
    IF ParserCheck(p, "False") THEN POk(ExprLiteral(Boolean(FALSE)), ParserAdvance(p))
    ELSE IF ParserCheck(p, "True") THEN POk(ExprLiteral(Boolean(TRUE)), ParserAdvance(p))
    ELSE IF ParserCheck(p, "Nil") THEN POk(ExprLiteral(Nil), ParserAdvance(p))
    ELSE IF ParserCheck(p, "Number") \/ ParserCheck(p, "String")
         THEN POk(ExprLiteral(ParserPeek(p).literal), ParserAdvance(p))
    ELSE IF ParserCheck(p, "Identifier") THEN POk(ExprVariable(ParserPeek(p)), ParserAdvance(p))
    ELSE IF ParserCheck(p, "LeftParen")
         THEN Try(ParseExpression(ParserAdvance(p)), LAMBDA e :
              Try(ParserConsume(e.p, "RightParen", "Expect ')' after expression."), LAMBDA c :
              POk(ExprGrouping(e.node), c.p)))
    ELSE PErr(ParserError(p, ParserPeek(p), "Expect expression."))

\* the parser after the argument count check of finish_call
CheckArguments(p, arguments) ==
    IF Len(arguments) >= MaxArgs
    THEN ParserError(p, ParserPeek(p), "Too many arguments in function call.")
    ELSE p

\* one iteration of the loop of finish_call, from the parser and the arguments of
\* s: what it leaves, with ok (no Err returned) and done (the loop was left)
ArgumentStep(s) ==
    LET e == ParseExpression(s.p)
        arguments == Append(s.arguments, e.node)
        m == ParserMatch(CheckArguments(e.p, arguments), {"Comma"})
    IN  IF ~e.ok THEN [ok |-> FALSE, done |-> TRUE, p |-> e.p, arguments |-> s.arguments]
        ELSE [ok |-> TRUE, done |-> ~m.matched, p |-> m.p, arguments |-> arguments]

\* at most n iterations of the loop of finish_call, the first half of them and
\* then the rest
RECURSIVE ArgumentLoop(_, _)
ArgumentLoop(s, n) ==
    IF s.done \/ n = 0 THEN s
    ELSE IF n = 1 THEN ArgumentStep(s)
    ELSE ArgumentLoop(ArgumentLoop(s, n \div 2), n - (n \div 2))

\* the loop of finish_call: it ends before the tokens do, each iteration takes one
ParseArguments(p) ==
    LET s == ArgumentLoop([ok |-> TRUE, done |-> FALSE, p |-> p, arguments |-> <<>>],
                          Len(p.tokens))
    IN  IF s.ok THEN POk(s.arguments, s.p) ELSE PErr(s.p)

\* Parser::finish_call
ParseFinishCall(p, callee) ==
    Try(IF ~ParserCheck(p, "RightParen") THEN ParseArguments(p) ELSE POk(<<>>, p),
        LAMBDA a :
    Try(ParserConsume(a.p, "RightParen", "Expect ')' after arguments."), LAMBDA c :
    POk(ExprCall(callee, c.node, a.node), c.p)))

\* the loop of call, with the expression parsed so far
RECURSIVE ParseCallLoop(_, _)
ParseCallLoop(p, expr) ==
    IF ParserCheck(p, "LeftParen")
    THEN Try(ParseFinishCall(ParserAdvance(p), expr), LAMBDA f : ParseCallLoop(f.p, f.node))
    ELSE POk(expr, p)

\* Parser::call
ParseCall(p) == Try(ParsePrimary(p), LAMBDA e : ParseCallLoop(e.p, e.node))

\* Parser::unary
ParseUnary(p) ==
    IF ParserCheck(p, "Bang") \/ ParserCheck(p, "Minus")
    THEN Try(ParseUnary(ParserAdvance(p)), LAMBDA r :
         POk(ExprUnary(ParserPeek(p), r.node), r.p))
    ELSE ParseCall(p)

\* levels where + and - bind tighter than * and /
LevelOperators_swapped(level) ==
    CASE level = "factor" -> {"Minus", "Plus"}
      [] level = "term" -> {"Slash", "Star"}
      [] level = "comparison" -> {"Greater", "GreaterEqual", "Less", "LessEqual"}
      [] level = "equality" -> {"BangEqual", "EqualEqual"}
      [] level = "and" -> {"And"}
      [] level = "or" -> {"Or"}

\* the binary levels factor, term, comparison, equality, and, or: the operator
\* tokens of a level
LevelOperators(level) ==
    CASE level = "factor" -> {"Slash", "Star"}
      [] level = "term" -> {"Minus", "Plus"}
      [] level = "comparison" -> {"Greater", "GreaterEqual", "Less", "LessEqual"}
      [] level = "equality" -> {"BangEqual", "EqualEqual"}
      [] level = "and" -> {"And"}
      [] level = "or" -> {"Or"}

RECURSIVE ParseLevel(_, _)

\* the function a level calls for its operands
ParseOperand(level, p) ==
    CASE level = "factor" -> ParseUnary(p)
      [] level = "term" -> ParseLevel("factor", p)
      [] level = "comparison" -> ParseLevel("term", p)
      [] level = "equality" -> ParseLevel("comparison", p)
      [] level = "and" -> ParseLevel("equality", p)
      [] level = "or" -> ParseLevel("and", p)

\* the node a level builds
LevelNode(level, left, operator, right) ==
    IF level \in {"and", "or"} THEN ExprLogical(left, operator, right)
    ELSE ExprBinary(left, operator, right)

\* the while loop of a level, with the expression parsed so far
RECURSIVE ParseLevelLoop(_, _, _)
ParseLevelLoop(level, p, expr) ==
    IF ParserMatch(p, LevelOperators(level)).matched
    THEN Try(ParseOperand(level, ParserAdvance(p)), LAMBDA r :
         ParseLevelLoop(level, r.p, LevelNode(level, expr, ParserPeek(p), r.node)))
    ELSE POk(expr, p)

\* Parser::factor, term, comparison, equality, and, or
ParseLevel(level, p) ==
    Try(ParseOperand(level, p), LAMBDA e : ParseLevelLoop(level, e.p, e.node))

\* Parser::or
ParseOr(p) == ParseLevel("or", p)

\* an assignment that raises a ParseError for an invalid target
AssignmentTo_fatal(expr, equals, value) ==
    IF expr.type = "Variable" THEN POk(ExprAssignment(expr.name, value.node), value.p)
    ELSE PErr(ParserError(value.p, equals, "Invalid assignment target"))

\* the end of assignment, with the target expr, the token equals and the value
AssignmentTo(expr, equals, value) ==
    IF expr.type = "Variable" THEN POk(ExprAssignment(expr.name, value.node), value.p)
    ELSE POk(expr, ParserError(value.p, equals, "Invalid assignment target"))

\* Parser::assignment
ParseAssignment(p) ==
    Try(ParseOr(p), LAMBDA e :
    IF ParserCheck(e.p, "Equal")
    THEN Try(ParseAssignment(ParserAdvance(e.p)), LAMBDA v :
         AssignmentTo(e.node, ParserPeek(e.p), v))
    ELSE e)

\* Parser::print_statement
ParsePrintStatement(p) ==
    Try(ParseExpression(p), LAMBDA e :
    Try(ParserConsume(e.p, "Semicolon", "Expect ';' after value."), LAMBDA c :
    POk(StmtPrint(e.node), c.p)))

\* Parser::expression_statement
ParseExpressionStatement(p) ==
    Try(ParseExpression(p), LAMBDA e :
    Try(ParserConsume(e.p, "Semicolon", "Expect ';' after value."), LAMBDA c :
    POk(StmtExpression(e.node), c.p)))

\* the initializer of var_declaration
ParseInitializer(p) ==
    IF ParserCheck(p, "Equal") THEN ParseExpression(ParserAdvance(p)) ELSE POk(None, p)

\* Parser::var_declaration
ParseVarDeclaration(p) ==
    Try(ParserConsume(p, "Identifier", "Expect variable name."), LAMBDA name :
    Try(ParseInitializer(name.p), LAMBDA init :
    Try(ParserConsume(init.p, "Semicolon", "Expect ';' after variable declaration."),
        LAMBDA c :
    POk(StmtVar(name.node, init.node), c.p))))

\* Parser::while_statement
ParseWhileStatement(p) ==
    Try(ParserConsume(p, "LeftParen", "Expect '(' after 'while'."), LAMBDA l :
    Try(ParseExpression(l.p), LAMBDA cond :
    Try(ParserConsume(cond.p, "RightParen", "Expect ')' after condition."), LAMBDA r :
    Try(ParseStatement(r.p), LAMBDA body :
    POk(StmtWhile(cond.node, body.node), body.p)))))

\* the else branch of if_statement
ParseElse(p) ==
    IF ParserCheck(p, "Else") THEN ParseStatement(ParserAdvance(p)) ELSE POk(None, p)

\* Parser::if_statement
ParseIfStatement(p) ==
    Try(ParserConsume(p, "LeftParen", "Expect '(' after 'if'."), LAMBDA l :
    Try(ParseExpression(l.p), LAMBDA cond :
    Try(ParserConsume(cond.p, "RightParen", "Expect ')' after if condition."), LAMBDA r :
    Try(ParseStatement(r.p), LAMBDA then :
    Try(ParseElse(then.p), LAMBDA else :
    POk(StmtIf(cond.node, then.node, else.node), else.p))))))

\* the initializer of for_statement
ParseForInitializer(p) ==
    IF ParserCheck(p, "Semicolon") THEN POk(None, ParserAdvance(p))
    ELSE IF ParserCheck(p, "Var") THEN ParseVarDeclaration(ParserAdvance(p))
    ELSE ParseExpressionStatement(p)

\* the condition or the increment of for_statement, absent before the token type
ParseForClause(p, type) ==
    IF ~ParserCheck(p, type) THEN ParseExpression(p) ELSE POk(None, p)

\* a for_statement that leaves the increment out of the loop
Desugar_noIncrement(initializer, condition, increment, body) ==
    LET while_loop ==
            IF condition # None THEN StmtWhile(condition, body)
            ELSE StmtWhile(ExprLiteral(Boolean(TRUE)), body)
    IN  IF initializer # None THEN StmtBlock(<<initializer, while_loop>>) ELSE while_loop

\* the statement for_statement builds
Desugar(initializer, condition, increment, body) ==
    LET body_with_increment ==
            IF increment # None THEN StmtBlock(<<body, StmtExpression(increment)>>)
            ELSE body
        while_loop ==
            IF condition # None THEN StmtWhile(condition, body_with_increment)
            ELSE StmtWhile(ExprLiteral(Boolean(TRUE)), body_with_increment)
    IN  IF initializer # None THEN StmtBlock(<<initializer, while_loop>>) ELSE while_loop

\* for_statement after the initializer
ParseForRest(p, initializer) ==
    Try(ParseForClause(p, "Semicolon"), LAMBDA cond :
    Try(ParserConsume(cond.p, "Semicolon", "Expect ';' after loop condition."), LAMBDA s :
    Try(ParseForClause(s.p, "RightParen"), LAMBDA incr :
    Try(ParserConsume(incr.p, "RightParen", "Expect ')' after for clauses."), LAMBDA r :
    Try(ParseStatement(r.p), LAMBDA body :
    POk(Desugar(initializer, cond.node, incr.node, body.node), body.p))))))

\* Parser::for_statement
ParseForStatement(p) ==
    Try(ParserConsume(p, "LeftParen", "Expect '(' after 'for'."), LAMBDA l :
    Try(ParseForInitializer(l.p), LAMBDA init :
    ParseForRest(init.p, init.node)))

\* the statements after one more declaration
Push(stmts, d) == IF d.some THEN Append(stmts, d.node) ELSE stmts

\* the while loop of block, with the statements parsed so far
RECURSIVE ParseBlockLoop(_, _)
ParseBlockLoop(p, stmts) ==
    IF ~ParserCheck(p, "RightBrace") /\ ~ParserIsAtEnd(p) /\ ~p.panicked /\ ~p.stuck
    THEN Bind(ParseDeclaration(p), LAMBDA d :
             IF d.p.current = p.current /\ ~d.p.panicked
             THEN POk(stmts, [d.p EXCEPT !.stuck = TRUE])
             ELSE ParseBlockLoop(d.p, Push(stmts, d)))
    ELSE POk(stmts, p)

\* Parser::block
ParseBlock(p) ==
    Bind(ParseBlockLoop(p, <<>>), LAMBDA b :
    Try(ParserConsume(b.p, "RightBrace", "Expect '}' after block."), LAMBDA c :
    POk(b.node, c.p)))

\* Parser::statement
ParseStatement(p) ==
    IF ParserCheck(p, "Print") THEN ParsePrintStatement(ParserAdvance(p))
    ELSE IF ParserCheck(p, "LeftBrace")
         THEN Try(ParseBlock(ParserAdvance(p)), LAMBDA b : POk(StmtBlock(b.node), b.p))
    ELSE IF ParserCheck(p, "If") THEN ParseIfStatement(ParserAdvance(p))
    ELSE IF ParserCheck(p, "While") THEN ParseWhileStatement(ParserAdvance(p))
    ELSE IF ParserCheck(p, "For") THEN ParseForStatement(ParserAdvance(p))
    ELSE ParseExpressionStatement(p)

\* a synchronize that stops only at a keyword
RECURSIVE SynchronizeLoop_keywordsOnly(_)
SynchronizeLoop_keywordsOnly(p) ==
    IF ParserIsAtEnd(p) THEN p
    ELSE IF ParserPeek(p).token_type \in
                {"Class", "For", "Fun", "If", "Print", "Return", "Var", "While"} THEN p
    ELSE SynchronizeLoop_keywordsOnly(ParserAdvance(p))

\* the while loop of synchronize
RECURSIVE SynchronizeLoop(_)
SynchronizeLoop(p) ==
    IF ParserIsAtEnd(p) THEN p
    ELSE IF p.current = 0 THEN [p EXCEPT !.panicked = TRUE]
    ELSE IF ParserPrevious(p).token_type = "Semicolon" THEN p
    ELSE IF ParserPeek(p).token_type \in
                {"Class", "For", "Fun", "If", "Print", "Return", "Var", "While"} THEN p
    ELSE SynchronizeLoop(ParserAdvance(p))

\* a synchronize without the advance before its loop
Synchronize_noAdvance(p) == SynchronizeLoop(p)

\* Parser::synchronize
Synchronize(p) == SynchronizeLoop(ParserAdvance(p))

\* a declaration that gives up at a parse error: it skips to Eof
Recover_skipAll(result) ==
    IF result.ok THEN [some |-> TRUE, node |-> result.node, p |-> result.p]
    ELSE [some |-> FALSE, p |-> [result.p EXCEPT !.current = Len(result.p.tokens) - 1]]

\* the Option declaration makes of a result, and the parser it leaves
Recover(result) ==
    IF result.ok THEN [some |-> TRUE, node |-> result.node, p |-> result.p]
    ELSE [some |-> FALSE, p |-> Synchronize(result.p)]

\* the result that declaration matches on
DeclarationResult(p) ==
    IF ParserCheck(p, "Var") THEN ParseVarDeclaration(ParserAdvance(p))
    ELSE ParseStatement(p)

\* Parser::declaration: Some(node) or None, and the parser it leaves
ParseDeclaration(p) == Recover(DeclarationResult(p))

\* the while loop of parse, with the statements parsed so far
RECURSIVE ParseLoop(_, _)
ParseLoop(p, stmts) ==
    IF ~ParserIsAtEnd(p) /\ ~p.panicked /\ ~p.stuck
    THEN Bind(ParseDeclaration(p), LAMBDA d :
             IF d.p.current = p.current /\ ~d.p.panicked
             THEN [statements |-> stmts, p |-> [d.p EXCEPT !.stuck = TRUE]]
             ELSE ParseLoop(d.p, Push(stmts, d)))
    ELSE [statements |-> stmts, p |-> p]

\* Parser::parse: the statements it returns and the parser it leaves
Parse(p) == ParseLoop(p, <<>>)

(***************************************************************************)
(* The state of a component that a specification does not run              *)
(***************************************************************************)

\* Interpreter::new
InterpreterNew == [error_reporter |-> ReporterNew, environment |-> EnvNew]

InterpIdle ==
    /\ statements = <<>>
    /\ pc = 1
    /\ control = "idle"
    /\ interpreter = InterpreterNew
    /\ stdout = <<>>
    /\ stderr = <<>>
    /\ block_log = <<>>
    /\ executed = <<>>

EnvIdle ==
    /\ environments = EnvNew
    /\ env_last = [op |-> "new"]

ScanIdle ==
    /\ scanner = ScannerNew(<<>>)
    /\ scan_control = "idle"

RunIdle ==
    /\ parser = ParserNew(<<>>)
    /\ run_pc = "idle"
    /\ exit_code = -1

ParseIdle ==
    /\ parse_control = "idle"
    /\ parse_log = <<>>

(***************************************************************************)
(* SpecEnv: any sequence of calls on one EnvironmentStack                  *)
(***************************************************************************)

\* the deepest stack SpecEnv builds
MaxDepth == 3

Names == {"a", "b"}

EnvValues == {Number(1), String("s")}

Ident(n) == Token("Identifier", n, None, 1)

EnvInit ==
    /\ environments = EnvNew
    /\ env_last = [op |-> "new"]
    /\ InterpIdle
    /\ ScanIdle
    /\ RunIdle
    /\ ParseIdle

PushEnvironment ==
    /\ Len(environments) < MaxDepth
    /\ environments' = EnvPush(environments)
    /\ env_last' = [op |-> "push", before |-> environments]
    /\ UNCHANGED <<interpVars, scanVars, runVars, parseVars>>

PopEnvironment ==
    /\ environments' = EnvPop(environments)
    /\ env_last' = [op |-> "pop", before |-> environments]
    /\ UNCHANGED <<interpVars, scanVars, runVars, parseVars>>

Define ==
    \E n \in Names, v \in EnvValues :
        /\ environments' = EnvDefine(environments, Ident(n), v)
        /\ env_last' = [op |-> "define", name |-> Ident(n), value |-> v,
                        before |-> environments]
        /\ UNCHANGED <<interpVars, scanVars, runVars, parseVars>>

DefineGlobal ==
    \E n \in Names, v \in EnvValues :
        /\ environments' = EnvDefineGlobal(environments, n, v)
        /\ env_last' = [op |-> "define_global", name |-> Ident(n), value |-> v,
                        before |-> environments]
        /\ UNCHANGED <<interpVars, scanVars, runVars, parseVars>>

Get ==
    \E n \in Names :
        /\ environments' = environments
        /\ env_last' = [op |-> "get", name |-> Ident(n), before |-> environments,
                        result |-> EnvGet(environments, Ident(n))]
        /\ UNCHANGED <<interpVars, scanVars, runVars, parseVars>>

Assign ==
    \E n \in Names, v \in EnvValues :
        LET r == EnvAssign(environments, Ident(n), v)
        IN  /\ environments' = r.envs
            /\ env_last' = [op |-> "assign", name |-> Ident(n), value |-> v,
                            before |-> environments,
                            result |-> IF r.ok THEN [ok |-> TRUE]
                                       ELSE [ok |-> FALSE, error |-> r.error]]
            /\ UNCHANGED <<interpVars, scanVars, runVars, parseVars>>

EnvNext ==
    \/ PushEnvironment
    \/ PopEnvironment
    \/ Define
    \/ DefineGlobal
    \/ Get
    \/ Assign

SpecEnv == EnvInit /\ [][EnvNext]_vars

(***************************************************************************)
(* SpecInterp: Interpreter::interpret on a statement sequence              *)
(***************************************************************************)

\* the longest statement sequence given to interpret
MaxStmts == 2

Tok(token_type, lexeme) == Token(token_type, lexeme, None, 1)

VarA == ExprVariable(Ident("a"))

Lit(value) == ExprLiteral(value)

\* a = a + 1
IncA == ExprAssignment(Ident("a"), ExprBinary(VarA, Tok("Plus", "+"), Lit(Number(1))))

\* a = 2
SetA2 == ExprAssignment(Ident("a"), Lit(Number(2)))

\* -"s", which always fails
Fail == ExprUnary(Tok("Minus", "-"), Lit(String("s")))

\* the error of -"s"
FailError == RuntimeError("Operand must be a number", Tok("Minus", "-"))

\* a < 2
ALess2 == ExprBinary(VarA, Tok("Less", "<"), Lit(Number(2)))

LeafStmts ==
    { StmtVar(Ident("a"), Lit(Number(1))),
      StmtVar(Ident("a"), None),
      StmtVar(Ident("b"), Lit(String("s"))),
      StmtExpression(IncA),
      StmtPrint(VarA),
      StmtExpression(Fail) }

\* print <left> and|or <right>; the right operand writes a or fails
LogicalStmts ==
    { StmtPrint(ExprLogical(l, op, r)) :
        l \in {Lit(Boolean(FALSE)), Lit(Number(0)), VarA},
        op \in {Tok("And", "and"), Tok("Or", "or")},
        r \in {SetA2, Fail} }

BlockStmts ==
    { StmtBlock(<<x, y>>) :
        x \in {StmtVar(Ident("a"), Lit(String("s"))), StmtExpression(IncA)},
        y \in {StmtExpression(Fail),
               StmtPrint(VarA),
               StmtBlock(<<StmtVar(Ident("b"), Lit(Number(1))), StmtExpression(Fail)>>),
               StmtBlock(<<StmtVar(Ident("a"), Lit(Number(0))), StmtExpression(IncA)>>)} }
    \cup
    { StmtBlock(<<>>),
      StmtBlock(<<StmtExpression(Fail), StmtExpression(IncA)>>),
      StmtBlock(<<StmtBlock(<<StmtBlock(<<StmtExpression(Fail)>>)>>),
                  StmtExpression(IncA)>>) }

IfStmts ==
    { StmtIf(c, t, e) :
        c \in {VarA, Lit(Boolean(FALSE))},
        t \in {StmtBlock(<<StmtVar(Ident("b"), None), StmtExpression(Fail)>>),
               StmtExpression(IncA)},
        e \in {None, StmtBlock(<<StmtExpression(IncA), StmtExpression(Fail)>>)} }

WhileStmts ==
    { StmtWhile(ALess2, StmtBlock(<<StmtExpression(IncA)>>)),
      StmtWhile(ALess2, StmtExpression(IncA)),
      StmtWhile(Lit(Boolean(TRUE)),
                StmtBlock(<<StmtVar(Ident("b"), None), StmtExpression(IncA)>>)),
      StmtWhile(ALess2,
                StmtBlock(<<StmtExpression(IncA),
                            StmtBlock(<<StmtVar(Ident("b"), None),
                                        StmtExpression(Fail)>>)>>)) }

VarB == ExprVariable(Ident("b"))

\* { var b = 1; } and print b;
ScopeStmts ==
    { StmtBlock(<<StmtVar(Ident("b"), Lit(Number(1)))>>),
      StmtPrint(VarB) }

StmtSet ==
    LeafStmts \cup LogicalStmts \cup BlockStmts \cup IfStmts \cup WhileStmts \cup ScopeStmts

\* { var b = 1; } print b; and one more statement
ScopePrograms ==
    { <<StmtBlock(<<StmtVar(Ident("b"), Lit(Number(1)))>>), StmtPrint(VarB), s>> :
        s \in LeafStmts }

\* operand expressions with the value each evaluates to: literals of every
\* kind, 1 / 0 (infinity) and 0 / 0 (NaN)
Operands ==
    { [expr |-> Lit(v), value |-> v] :
        v \in {Number(0), Number(1), String(""), String("s"),
               Boolean(TRUE), Boolean(FALSE), Nil} }
    \cup
    { [expr |-> ExprBinary(Lit(Number(1)), Tok("Slash", "/"), Lit(Number(0))),
       value |-> Inf(1)],
      [expr |-> ExprBinary(Lit(Number(0)), Tok("Slash", "/"), Lit(Number(0))),
       value |-> NaN] }

OperandExprs == { o.expr : o \in Operands }

\* the operators that take two numbers only, `+`, and the two of equality
NumberOperators ==
    { Tok("Minus", "-"), Tok("Slash", "/"), Tok("Star", "*"), Tok("Greater", ">"),
      Tok("GreaterEqual", ">="), Tok("Less", "<"), Tok("LessEqual", "<=") }

\* var r = <left> <op> <right>;
BinaryPrograms ==
    { <<StmtVar(Ident("r"), ExprBinary(l, op, r))>> :
        l \in OperandExprs, r \in OperandExprs,
        op \in NumberOperators \cup {Tok("Plus", "+")} }

\* var r = <left> == <right>; var n = <left> != <right>;
EqualityPrograms ==
    { <<StmtVar(Ident("r"), ExprBinary(l, Tok("EqualEqual", "=="), r)),
        StmtVar(Ident("n"), ExprBinary(l, Tok("BangEqual", "!="), r))>> :
        l \in OperandExprs, r \in OperandExprs }

\* var r = !<v>;
NotProgram(v) == <<StmtVar(Ident("r"), ExprUnary(Tok("Bang", "!"), v))>>

\* var r = -<v>;
NegateProgram(v) == <<StmtVar(Ident("r"), ExprUnary(Tok("Minus", "-"), v))>>

\* if (<v>) print 1; else print 2;
IfProgram(v) == <<StmtIf(v, StmtPrint(Lit(Number(1))), StmtPrint(Lit(Number(2))))>>

\* var r = <v> and "x";   var r = <v> or "x";
LogicalProgram(v, op) == <<StmtVar(Ident("r"), ExprLogical(v, op, Lit(String("x"))))>>

\* var a = <v>; while (a) { print 1; a = nil; }
WhileProgram(v) ==
    <<StmtVar(Ident("a"), v),
      StmtWhile(VarA, StmtBlock(<<StmtPrint(Lit(Number(1))),
                                  StmtExpression(ExprAssignment(Ident("a"), Lit(Nil)))>>))>>

TruthinessPrograms ==
    UNION { {NotProgram(v), NegateProgram(v), IfProgram(v), WhileProgram(v),
             LogicalProgram(v, Tok("And", "and")), LogicalProgram(v, Tok("Or", "or"))} :
                v \in OperandExprs }

\* print a = <v>;
PrintAssign(v) == StmtPrint(ExprAssignment(Ident("a"), v))

\* var a = 1; { var a = 0; print a = <v>; print a; } print a;
ShadowAssignProgram(v) ==
    <<StmtVar(Ident("a"), Lit(Number(1))),
      StmtBlock(<<StmtVar(Ident("a"), Lit(Number(0))), PrintAssign(v), StmtPrint(VarA)>>),
      StmtPrint(VarA)>>

\* var a = 1; { var b = 0; print a = <v>; print b; } print a;
OuterAssignProgram(v) ==
    <<StmtVar(Ident("a"), Lit(Number(1))),
      StmtBlock(<<StmtVar(Ident("b"), Lit(Number(0))), PrintAssign(v), StmtPrint(VarB)>>),
      StmtPrint(VarA)>>

\* { var b = 0; print a = <v>; print b; } print a;
UnboundAssignProgram(v) ==
    <<StmtBlock(<<StmtVar(Ident("b"), Lit(Number(0))), PrintAssign(v), StmtPrint(VarB)>>),
      StmtPrint(VarA)>>

\* the right-hand sides of the assignments: values of three kinds, and -"s"
AssignedValues == {Number(2), String("s"), Nil}

AssignPrograms ==
    UNION { {<<PrintAssign(v)>>,
             <<StmtVar(Ident("a"), Lit(Number(1))), PrintAssign(v)>>,
             ShadowAssignProgram(v), OuterAssignProgram(v), UnboundAssignProgram(v)} :
                v \in {Lit(x) : x \in AssignedValues} \cup {Fail} }

\* a < <n>
ALess(n) == ExprBinary(VarA, Tok("Less", "<"), Lit(Number(n)))

\* var a = 0; while (a < <n>) { a = a + 1; }
CounterProgram(n) ==
    <<StmtVar(Ident("a"), Lit(Number(0))),
      StmtWhile(ALess(n), StmtBlock(<<StmtExpression(IncA)>>))>>

\* var a = 0; while (a < <n>) { print a; a = a + 1; }
PrintingCounterProgram(n) ==
    <<StmtVar(Ident("a"), Lit(Number(0))),
      StmtWhile(ALess(n), StmtBlock(<<StmtPrint(VarA), StmtExpression(IncA)>>))>>

\* var a = 0; while (a < 2) { print a; -"s"; a = a + 1; }
FailingBodyProgram ==
    <<StmtVar(Ident("a"), Lit(Number(0))),
      StmtWhile(ALess(2), StmtBlock(<<StmtPrint(VarA), StmtExpression(Fail),
                                      StmtExpression(IncA)>>))>>

\* var a = 0; while (a < 2) { print a; a = "s"; }
FailingConditionProgram ==
    <<StmtVar(Ident("a"), Lit(Number(0))),
      StmtWhile(ALess(2),
                StmtBlock(<<StmtPrint(VarA),
                            StmtExpression(ExprAssignment(Ident("a"), Lit(String("s"))))>>))>>

\* while (<c>) print 1;  for a condition that is falsy or fails at entry
NeverProgram(c) == <<StmtWhile(c, StmtPrint(Lit(Number(1))))>>

WhilePrograms ==
    { CounterProgram(n) : n \in 0..MaxIter }
    \cup { PrintingCounterProgram(n) : n \in 0..MaxIter }
    \cup { FailingBodyProgram, FailingConditionProgram }
    \cup { NeverProgram(c) : c \in {Lit(Boolean(FALSE)), Lit(Nil), Fail} }

\* (a = a + 1) < <n>: a condition that counts its evaluations in a
CountingCondition(n) == ExprBinary(IncA, Tok("Less", "<"), Lit(Number(n)))

PrintThen == StmtPrint(Lit(String("then")))

PrintElse == StmtPrint(Lit(String("else")))

\* var a = 0; if ((a = a + 1) < <n>) print "then"; else print "else"; print a;
IfElseProgram(n) ==
    <<StmtVar(Ident("a"), Lit(Number(0))),
      StmtIf(CountingCondition(n), PrintThen, PrintElse),
      StmtPrint(VarA)>>

\* var a = 0; if ((a = a + 1) < <n>) print "then"; print a;
IfOnlyProgram(n) ==
    <<StmtVar(Ident("a"), Lit(Number(0))),
      StmtIf(CountingCondition(n), PrintThen, None),
      StmtPrint(VarA)>>

\* if (-"s") print "then"; else print "else";
IfFailingProgram == <<StmtIf(Fail, PrintThen, PrintElse)>>

\* if (<v>) print "then";
IfValueProgram(v) == <<StmtIf(v, PrintThen, None)>>

IfPrograms ==
    { IfElseProgram(n) : n \in 1..2 } \cup { IfOnlyProgram(n) : n \in 1..2 }
    \cup { IfFailingProgram } \cup { IfValueProgram(v) : v \in OperandExprs }

\* var a = 1; var a [= <init>];
RedeclareProgram(init) ==
    <<StmtVar(Ident("a"), Lit(Number(1))), StmtVar(Ident("a"), init)>>

\* var a = 1; { var a = 2; var a = <v>; print a; var b; print b; } print a; print b;
ScopedVarProgram(v) ==
    <<StmtVar(Ident("a"), Lit(Number(1))),
      StmtBlock(<<StmtVar(Ident("a"), Lit(Number(2))), StmtVar(Ident("a"), v),
                  StmtPrint(VarA), StmtVar(Ident("b"), None), StmtPrint(VarB)>>),
      StmtPrint(VarA),
      StmtPrint(VarB)>>

\* var a = 1; { var a = 2; var a = -"s"; print a; } print a;
ScopedFailingVarProgram ==
    <<StmtVar(Ident("a"), Lit(Number(1))),
      StmtBlock(<<StmtVar(Ident("a"), Lit(Number(2))), StmtVar(Ident("a"), Fail),
                  StmtPrint(VarA)>>),
      StmtPrint(VarA)>>

VarPrograms ==
    { RedeclareProgram(i) : i \in OperandExprs \cup {None, Fail} }
    \cup { ScopedVarProgram(v) : v \in OperandExprs }
    \cup { ScopedFailingVarProgram }

\* the deepest nesting of the statements that raise an error
MaxNest == 3

\* the statements a statement can be nested in
WrapKinds == {"block", "then", "else", "while"}

\* { s }   if (true) s   if (nil) print "then"; else s   while (true) s
Wrap(kind, s) ==
    CASE kind = "block" -> StmtBlock(<<s>>)
      [] kind = "then" -> StmtIf(Lit(Boolean(TRUE)), s, None)
      [] kind = "else" -> StmtIf(Lit(Nil), PrintThen, s)
      [] kind = "while" -> StmtWhile(Lit(Boolean(TRUE)), s)

RECURSIVE Nest(_, _)
Nest(kinds, s) == IF kinds = <<>> THEN s ELSE Wrap(Head(kinds), Nest(Tail(kinds), s))

\* statements that fail, with the error each raises: -"s";  print b;
\* var a = nil + 1;  if (-"s") print "then";  while (b) print "then";
Raising ==
    { [stmt |-> StmtExpression(Fail), error |-> FailError],
      [stmt |-> StmtPrint(VarB), error |-> UndefinedVariable(Ident("b"))],
      [stmt |-> StmtVar(Ident("a"), ExprBinary(Lit(Nil), Tok("Plus", "+"), Lit(Number(1)))),
       error |-> RuntimeError("Operands must be two numbers or two strings",
                              Tok("Plus", "+"))],
      [stmt |-> StmtIf(Fail, PrintThen, None), error |-> FailError],
      [stmt |-> StmtWhile(VarB, PrintThen), error |-> UndefinedVariable(Ident("b"))] }

Nestings == UNION { [1..n -> WrapKinds] : n \in 0..MaxNest }

\* <the failing statement, nested>; print 1;
NestedProgram(kinds, s) == <<Nest(kinds, s), StmtPrint(Lit(Number(1)))>>

NestedPrograms == { NestedProgram(kinds, r.stmt) : kinds \in Nestings, r \in Raising }

\* a()   a(1)   1()   a()()
CallExprs ==
    { ExprCall(VarA, Tok("RightParen", ")"), <<>>),
      ExprCall(VarA, Tok("RightParen", ")"), <<Lit(Number(1))>>),
      ExprCall(Lit(Number(1)), Tok("RightParen", ")"), <<>>),
      ExprCall(ExprCall(VarA, Tok("RightParen", ")"), <<>>), Tok("RightParen", ")"), <<>>) }

\* expressions of every variant that hold a call: (c)  -c  c + 1  a = c
\* true and c   false and c
WithCall(c) ==
    { c, ExprGrouping(c), ExprUnary(Tok("Minus", "-"), c),
      ExprBinary(c, Tok("Plus", "+"), Lit(Number(1))),
      ExprAssignment(Ident("a"), c),
      ExprLogical(Lit(Boolean(TRUE)), Tok("And", "and"), c),
      ExprLogical(Lit(Boolean(FALSE)), Tok("And", "and"), c) }

\* var a = 1; print <expression with a call>; print a;
CallPrograms ==
    { <<StmtVar(Ident("a"), Lit(Number(1))), StmtPrint(e), StmtPrint(VarA)>> :
        e \in UNION { WithCall(c) : c \in CallExprs } }

\* var a = 1; print (a); print ((a + 1));
GroupingProgram ==
    <<StmtVar(Ident("a"), Lit(Number(1))),
      StmtPrint(ExprGrouping(VarA)),
      StmtPrint(ExprGrouping(ExprGrouping(ExprBinary(VarA, Tok("Plus", "+"),
                                                     Lit(Number(1))))))>>

\* var a = 1; { a = 2; var b = 3; print a; -"s"; a = a + 1; print a; }
\* print a; print b;
FailingBlockProgram ==
    <<StmtVar(Ident("a"), Lit(Number(1))),
      StmtBlock(<<StmtExpression(SetA2), StmtVar(Ident("b"), Lit(Number(3))),
                  StmtPrint(VarA), StmtExpression(Fail), StmtExpression(IncA),
                  StmtPrint(VarA)>>),
      StmtPrint(VarA),
      StmtPrint(VarB)>>

\* var a = 0; while (a < 3) { a = a + 1; var b = a; if (a == 2) -"s"; print a; }
\* print a; print b;
FailingLoopProgram ==
    <<StmtVar(Ident("a"), Lit(Number(0))),
      StmtWhile(ALess(3),
                StmtBlock(<<StmtExpression(IncA), StmtVar(Ident("b"), VarA),
                            StmtIf(ExprBinary(VarA, Tok("EqualEqual", "=="), Lit(Number(2))),
                                   StmtExpression(Fail), None),
                            StmtPrint(VarA)>>)),
      StmtPrint(VarA),
      StmtPrint(VarB)>>

\* var a = 1; { var b = 1; { a = 2; b = 2; print b; -"s"; a = a + 1; } print a; }
\* print a; print b;
FailingNestedProgram ==
    <<StmtVar(Ident("a"), Lit(Number(1))),
      StmtBlock(<<StmtVar(Ident("b"), Lit(Number(1))),
                  StmtBlock(<<StmtExpression(SetA2),
                              StmtExpression(ExprAssignment(Ident("b"), Lit(Number(2)))),
                              StmtPrint(VarB), StmtExpression(Fail),
                              StmtExpression(IncA)>>),
                  StmtPrint(VarA)>>),
      StmtPrint(VarA),
      StmtPrint(VarB)>>

\* var a = 0; while (true) a = (a = a + 1) + "s";   print a;
FailingBareLoopProgram ==
    <<StmtVar(Ident("a"), Lit(Number(0))),
      StmtWhile(Lit(Boolean(TRUE)),
                StmtExpression(ExprAssignment(Ident("a"),
                    ExprBinary(IncA, Tok("Plus", "+"), Lit(String("s")))))),
      StmtPrint(VarA)>>

NoRollbackPrograms ==
    { FailingBlockProgram, FailingLoopProgram, FailingNestedProgram,
      FailingBareLoopProgram }

Programs ==
    UNION { [1..n -> StmtSet] : n \in 1..MaxStmts }
        \cup NoRollbackPrograms
        \cup CallPrograms \cup { GroupingProgram }
        \cup NestedPrograms
        \cup VarPrograms
        \cup ScopePrograms \cup BinaryPrograms \cup EqualityPrograms \cup TruthinessPrograms
        \cup AssignPrograms \cup WhilePrograms \cup IfPrograms

InterpInit ==
    /\ statements \in Programs
    /\ pc = 1
    /\ control = "interpret"
    /\ interpreter = InterpreterNew
    /\ stdout = <<>>
    /\ stderr = <<>>
    /\ block_log = <<>>
    /\ executed = <<>>
    /\ EnvIdle
    /\ ScanIdle
    /\ RunIdle
    /\ ParseIdle

\* the st that execute works on
CurrentSt ==
    [environment |-> interpreter.environment, stdout |-> stdout, block_log |-> block_log]

\* a for loop that ends at the first statement that fails
NextStatement_stopOnError(stmts, i, r) ==
    IF r.status = "err" THEN Len(stmts) + 1 ELSE i + 1

\* the for loop of interpret: the statement after statement i, whatever its result r
NextStatement(stmts, i, r) == i + 1

\* one iteration of the for loop of interpret
InterpretStatement ==
    /\ control = "interpret"
    /\ pc <= Len(statements)
    /\ LET r == Execute(statements[pc], CurrentSt)
       IN  /\ r.status # "div"
           /\ r.status = "err" => r.error # Unhandled
           /\ interpreter' =
                  [environment |-> r.st.environment,
                   error_reporter |->
                       IF r.status = "err"
                       THEN ReporterRuntimeError(interpreter.error_reporter)
                       ELSE interpreter.error_reporter]
           /\ stderr' = IF r.status = "err"
                        THEN Append(stderr, RuntimeErrorLine(r.error))
                        ELSE stderr
           /\ stdout' = r.st.stdout
           /\ block_log' = r.st.block_log
           /\ executed' = Append(executed,
                  [index |-> pc, status |-> r.status,
                   before |-> interpreter.environment,
                   after |-> r.st.environment,
                   out |-> SubSeq(r.st.stdout, Len(stdout) + 1, Len(r.st.stdout)),
                   error |-> IF r.status = "err" THEN r.error ELSE None])
           /\ pc' = NextStatement(statements, pc, r)
    /\ UNCHANGED <<statements, control, envVars, scanVars, runVars, parseVars>>

\* a statement whose loop does not end within MaxIter iterations: interpret never returns
InterpretHang ==
    /\ control = "interpret"
    /\ pc <= Len(statements)
    /\ Execute(statements[pc], CurrentSt).status = "div"
    /\ control' = "hung"
    /\ UNCHANGED <<statements, pc, interpreter, stdout, stderr, block_log, executed, envVars, scanVars, runVars, parseVars>>

\* a statement whose evaluation reaches an Expr::Call: evaluate has no arm
\* for it, interpret gives no result
InterpretUnhandled ==
    /\ control = "interpret"
    /\ pc <= Len(statements)
    /\ LET r == Execute(statements[pc], CurrentSt)
       IN  r.status = "err" /\ r.error = Unhandled
    /\ control' = "unhandled"
    /\ UNCHANGED <<statements, pc, interpreter, stdout, stderr, block_log, executed, envVars, scanVars, runVars, parseVars>>

\* the end of the for loop: interpret returns
InterpretReturn ==
    /\ control = "interpret"
    /\ pc > Len(statements)
    /\ control' = "returned"
    /\ UNCHANGED <<statements, pc, interpreter, stdout, stderr, block_log, executed, envVars, scanVars, runVars, parseVars>>

InterpNext ==
    \/ InterpretStatement
    \/ InterpretHang
    \/ InterpretUnhandled
    \/ InterpretReturn

SpecInterp == InterpInit /\ [][InterpNext]_vars

(***************************************************************************)
(* SpecScan: Scanner::scan_tokens on a source text                         *)
(***************************************************************************)

\* the longest source text, in chars
MaxSrcLen == 3

ScanAlphabet == {"1", ".", "\"", "\n", "/", "=", "a", "@", "<e9>", "<bd>"}

\* the chars of the operators of one or two chars, and a blank
OperatorAlphabet == {"!", "=", "<", ">", " "}

\* the chars of the words or, _ and their like
WordAlphabet == {"o", "r", "a", "_", "1"}

Sources ==
    UNION { [1..n -> ScanAlphabet] \cup [1..n -> OperatorAlphabet] \cup [1..n -> WordAlphabet] :
                n \in 0..MaxSrcLen }

ScanInit ==
    /\ \E source \in Sources : scanner = ScannerNew(source)
    /\ scan_control = "scanning"
    /\ InterpIdle
    /\ EnvIdle
    /\ RunIdle
    /\ ParseIdle

\* one iteration of the while loop of scan_tokens: start = current; scan_token()
ScanOneToken ==
    /\ scan_control = "scanning"
    /\ ~IsAtEnd(scanner)
    /\ scanner' = ScanStep(scanner)
    /\ scan_control' = IF scanner'.panicked THEN "panicked" ELSE "scanning"
    /\ UNCHANGED <<envVars, interpVars, runVars, parseVars>>

\* the end of the loop: scan_tokens pushes Eof and returns the tokens
ScanReturn ==
    /\ scan_control = "scanning"
    /\ IsAtEnd(scanner)
    /\ scanner' = ScanEof(scanner)
    /\ scan_control' = "returned"
    /\ UNCHANGED <<envVars, interpVars, runVars, parseVars>>

\* a second call of scan_tokens on the same Scanner
ScanAgain ==
    /\ scan_control = "returned"
    /\ scanner' = ScanTokens(scanner)
    /\ scan_control' = "returned again"
    /\ UNCHANGED <<envVars, interpVars, runVars, parseVars>>

ScanNext ==
    \/ ScanOneToken
    \/ ScanReturn
    \/ ScanAgain

SpecScan == ScanInit /\ [][ScanNext]_vars

(***************************************************************************)
(* SpecRun: main.rs run(source): scan, parse, interpret                    *)
(***************************************************************************)

\* the most words a source text of SpecRun is made of
MaxRunWords == 3

\* the pieces the source texts are made of
RunWords ==
    { <<"1">>, <<";">>, <<"a">>, <<"@">>, <<"=">>, <<"(", ")">>,
      <<" ", "p", "r", "i", "n", "t", " ">>,
      <<" ", "v", "a", "r", " ">>,
      <<" ", "w", "h", "i", "l", "e", "(", "1", ")">> }

RECURSIVE Concat(_)
Concat(words) == IF words = <<>> THEN <<>> ELSE Head(words) \o Concat(Tail(words))

RunSources == { Concat(ws) : ws \in UNION { [1..n -> RunWords] : n \in 0..MaxRunWords } }

\* a check_errors that lets a compile-time error pass
CheckErrors_onlyRuntime(error_reporter) ==
    IF error_reporter.had_runtime_error THEN 70 ELSE 0

\* check_errors: the status it exits with, 0 when it returns
CheckErrors(error_reporter) ==
    IF error_reporter.had_error THEN 65
    ELSE IF error_reporter.had_runtime_error THEN 70
    ELSE 0

RunInit ==
    /\ \E source \in RunSources : scanner = ScannerNew(source)
    /\ scan_control = "idle"
    /\ parser = ParserNew(<<>>)
    /\ run_pc = "scan_tokens"
    /\ exit_code = -1
    /\ InterpIdle
    /\ EnvIdle
    /\ ParseIdle

\* let tokens = scanner.scan_tokens();
RunScanTokens ==
    /\ run_pc = "scan_tokens"
    /\ scanner' = ScanTokens(scanner)
    /\ IF scanner'.panicked
       THEN run_pc' = "panicked" /\ exit_code' = exit_code /\ scan_control' = "panicked"
       ELSE run_pc' = "check_scanner" /\ exit_code' = exit_code /\ scan_control' = "returned"
    /\ UNCHANGED <<parser, parseVars, envVars, interpVars>>

\* check_errors(&scanner.error_reporter);
RunCheckScanner ==
    /\ run_pc = "check_scanner"
    /\ IF CheckErrors(scanner.error_reporter) # 0
       THEN run_pc' = "exited" /\ exit_code' = CheckErrors(scanner.error_reporter)
       ELSE run_pc' = "parse" /\ exit_code' = exit_code
    /\ UNCHANGED <<parser, parseVars, envVars, interpVars, scanVars>>

\* let mut parser = Parser::new(tokens); let statements = parser.parse();
RunParse ==
    /\ run_pc = "parse"
    /\ LET r == Parse(ParserNew(scanner.tokens))
       IN  /\ parser' = r.p
           /\ statements' = r.statements
    /\ run_pc' = "check_parser"
    /\ UNCHANGED <<exit_code, parseVars, envVars, scanVars, pc, control, interpreter, stdout, stderr,
                   block_log, executed>>

\* check_errors(&parser.error_reporter);
RunCheckParser ==
    /\ run_pc = "check_parser"
    /\ IF CheckErrors(parser.error_reporter) # 0
       THEN run_pc' = "exited" /\ exit_code' = CheckErrors(parser.error_reporter)
       ELSE run_pc' = "interpret" /\ exit_code' = exit_code
    /\ UNCHANGED <<parser, parseVars, envVars, interpVars, scanVars>>

\* let mut interpreter = Interpreter::new(); interpreter.interpret(statements): the call
RunInterpret ==
    /\ run_pc = "interpret"
    /\ control = "idle"
    /\ control' = "interpret"
    /\ interpreter' = InterpreterNew
    /\ pc' = 1
    /\ UNCHANGED <<statements, stdout, stderr, block_log, executed, envVars, scanVars,
                   runVars, parseVars>>

\* check_errors(&interpreter.error_reporter); and the return of run
RunCheckInterpreter ==
    /\ run_pc = "interpret"
    /\ control = "returned"
    /\ IF CheckErrors(interpreter.error_reporter) # 0
       THEN run_pc' = "exited" /\ exit_code' = CheckErrors(interpreter.error_reporter)
       ELSE run_pc' = "returned" /\ exit_code' = exit_code
    /\ UNCHANGED <<parser, parseVars, envVars, interpVars, scanVars>>

RunNext ==
    \/ RunScanTokens
    \/ RunCheckScanner
    \/ RunParse
    \/ RunCheckParser
    \/ RunInterpret
    \/ InterpretStatement
    \/ InterpretHang
    \/ InterpretUnhandled
    \/ InterpretReturn
    \/ RunCheckInterpreter

SpecRun == RunInit /\ [][RunNext]_vars

(***************************************************************************)
(* SpecParse: Parser::new(tokens).parse(), one declaration call per step   *)
(***************************************************************************)

\* the most tokens, before Eof, of a token sequence drawn freely
MaxTokens == 4

\* the most operators of an operator chain
MaxOps == 2

NumberToken(n) == Token("Number", ToString(n), Number(n), 1)

Eof == Token("Eof", "", None, 1)

\* the tokens the free sequences are made of: 1 a ; + { } print var
TokenAlphabet ==
    { NumberToken(1), Ident("a"), Tok("Semicolon", ";"), Tok("Plus", "+"),
      Tok("LeftBrace", "{"), Tok("RightBrace", "}"),
      Tok("Print", "print"), Tok("Var", "var") }

FreeSources == UNION { [1..n -> TokenAlphabet] : n \in 0..MaxTokens }

\* the operands of the chains: 1, a, (2 * 3)
ChainOperands ==
    { <<NumberToken(1)>>, <<Ident("a")>>,
      <<Tok("LeftParen", "("), NumberToken(2), Tok("Star", "*"), NumberToken(3),
        Tok("RightParen", ")")>> }

\* the operators of the chains
ChainOperators ==
    { Tok("Plus", "+"), Tok("Minus", "-"), Tok("Star", "*"),
      Tok("Less", "<"), Tok("EqualEqual", "=="), Tok("Equal", "=") }

\* the chains of n operators: operand (operator operand)*
RECURSIVE Chains(_)
Chains(n) ==
    IF n = 0 THEN ChainOperands
    ELSE { c \o <<op>> \o x : c \in Chains(n - 1), op \in ChainOperators, x \in ChainOperands }

\* the expression statements `chain ;`
ChainSources == { c \o <<Tok("Semicolon", ";")>> : c \in UNION { Chains(n) : n \in 0..MaxOps } }

AssignA(value) == <<Ident("a"), Tok("Equal", "=")>> \o value

\* the initializers of the for statements, with the statement each one is:
\* `;`, `var a = 1 ;`, `a = 1 ;`
ForInitializers ==
    { [tokens |-> <<Tok("Semicolon", ";")>>, node |-> None],
      [tokens |-> <<Tok("Var", "var")>> \o AssignA(<<NumberToken(1)>>)
                      \o <<Tok("Semicolon", ";")>>,
       node |-> StmtVar(Ident("a"), Lit(Number(1)))],
      [tokens |-> AssignA(<<NumberToken(1)>>) \o <<Tok("Semicolon", ";")>>,
       node |-> StmtExpression(ExprAssignment(Ident("a"), Lit(Number(1))))] }

\* the conditions, with the expression each one is: none, `a < 2`
ForConditions ==
    { [tokens |-> <<>>, node |-> None],
      [tokens |-> <<Ident("a"), Tok("Less", "<"), NumberToken(2)>>, node |-> ALess2] }

\* the increments, with the expression each one is: none, `a = a + 1`
ForIncrements ==
    { [tokens |-> <<>>, node |-> None],
      [tokens |-> AssignA(<<Ident("a"), Tok("Plus", "+"), NumberToken(1)>>), node |-> IncA] }

\* the bodies, with the statement each one is: `print a ;`, `{ }`, and `;`,
\* which is no statement
ForBodies ==
    { [tokens |-> <<Tok("Print", "print"), Ident("a"), Tok("Semicolon", ";")>>,
       node |-> StmtPrint(VarA)],
      [tokens |-> <<Tok("LeftBrace", "{"), Tok("RightBrace", "}")>>, node |-> StmtBlock(<<>>)],
      [tokens |-> <<Tok("Semicolon", ";")>>, node |-> None] }

\* for ( init cond ; incr ) body
ForTokens(init, cond, incr, body) ==
    <<Tok("For", "for"), Tok("LeftParen", "(")>> \o init.tokens \o cond.tokens
        \o <<Tok("Semicolon", ";")>> \o incr.tokens \o <<Tok("RightParen", ")")>>
        \o body.tokens

ForSources ==
    { ForTokens(init, cond, incr, body) :
        init \in ForInitializers, cond \in ForConditions, incr \in ForIncrements,
        body \in ForBodies }

\* n arguments: 1 , 1 , ... , 1
Arguments(n) ==
    IF n = 0 THEN <<>>
    ELSE [i \in 1..(2 * n - 1) |->
              IF i % 2 = 1 THEN NumberToken(1) ELSE Tok("Comma", ",")]

\* the argument counts of the calls: few, and around the cap
ArgumentCounts == {0, 1, 2, MaxArgs - 1, MaxArgs, MaxArgs + 1}

\* the calls a ( arguments ) ;
CallSources ==
    { <<Ident("a"), Tok("LeftParen", "(")>> \o Arguments(n)
          \o <<Tok("RightParen", ")"), Tok("Semicolon", ";")>> : n \in ArgumentCounts }

TokenSources == FreeSources \cup ChainSources \cup ForSources \cup CallSources

ParseInit ==
    /\ \E source \in TokenSources : parser = ParserNew(Append(source, Eof))
    /\ parse_control = "parse"
    /\ parse_log = <<>>
    /\ run_pc = "idle"
    /\ exit_code = -1
    /\ InterpIdle
    /\ EnvIdle
    /\ ScanIdle

\* an iteration of the loop of parse that is run at Eof too
ParseDeclare_atEnd ==
    /\ parse_control = "parse"
    /\ LET d == ParseDeclaration(parser)
       IN  /\ parser' = [d.p EXCEPT !.stuck = @ \/ (d.p.current = parser.current
                                                     /\ ~d.p.panicked)]
           /\ parse_control' = IF d.p.panicked THEN "panicked"
                               ELSE IF d.p.stuck \/ d.p.current = parser.current
                                    THEN "hung"
                               ELSE "parse"
           /\ statements' = Push(statements, d)
           /\ parse_log' = Append(parse_log,
                  [start |-> parser.current,
                   error_at |-> IF d.some THEN -1 ELSE DeclarationResult(parser).p.current,
                   end |-> d.p.current,
                   some |-> d.some,
                   node |-> IF d.some THEN d.node ELSE None,
                   reports |-> SubSeq(d.p.reported, Len(parser.reported) + 1,
                                      Len(d.p.reported))])
    /\ UNCHANGED <<run_pc, exit_code, envVars, scanVars, pc, control,
                   interpreter, stdout, stderr, block_log, executed>>

\* one iteration of the while loop of parse; parse does not return when
\* previous() panicked or when the iteration left the cursor where it was
ParseDeclare ==
    /\ parse_control = "parse"
    /\ ~ParserIsAtEnd(parser)
    /\ LET d == ParseDeclaration(parser)
       IN  /\ parser' = [d.p EXCEPT !.stuck = @ \/ (d.p.current = parser.current
                                                     /\ ~d.p.panicked)]
           /\ parse_control' = IF d.p.panicked THEN "panicked"
                               ELSE IF d.p.stuck \/ d.p.current = parser.current
                                    THEN "hung"
                               ELSE "parse"
           /\ statements' = Push(statements, d)
           /\ parse_log' = Append(parse_log,
                  [start |-> parser.current,
                   error_at |-> IF d.some THEN -1 ELSE DeclarationResult(parser).p.current,
                   end |-> d.p.current,
                   some |-> d.some,
                   node |-> IF d.some THEN d.node ELSE None,
                   reports |-> SubSeq(d.p.reported, Len(parser.reported) + 1,
                                      Len(d.p.reported))])
    /\ UNCHANGED <<run_pc, exit_code, envVars, scanVars, pc, control,
                   interpreter, stdout, stderr, block_log, executed>>

\* the end of the while loop: parse returns statements
ParseReturn ==
    /\ parse_control = "parse"
    /\ ParserIsAtEnd(parser)
    /\ parse_control' = "returned"
    /\ UNCHANGED <<parse_log, runVars, envVars, interpVars, scanVars>>

\* a second call of parse on the same Parser
ParseAgain ==
    /\ parse_control = "returned"
    /\ parser' = Parse(parser).p
    /\ statements' = Parse(parser).statements
    /\ parse_control' = "returned again"
    /\ UNCHANGED <<parse_log, run_pc, exit_code, envVars, scanVars, pc, control,
                   interpreter, stdout, stderr, block_log, executed>>

ParseNext ==
    \/ ParseDeclare
    \/ ParseReturn
    \/ ParseAgain

SpecParse == ParseInit /\ [][ParseNext]_vars

(***************************************************************************)
(* Properties of the environment stack (SpecEnv)                           *)
(***************************************************************************)

\* the scopes of envs that bind n
Defining(envs, n) == {i \in 1..Len(envs) : n \in DOMAIN envs[i]}

\* the innermost scope of envs that binds n
Innermost(envs, n) ==
    CHOOSE i \in Defining(envs, n) : \A k \in Defining(envs, n) : k <= i

UndefinedError(name) ==
    [message |-> <<"Undefined variable '", name.lexeme, "'.">>, token |-> name]

\* C7: after any sequence of calls the stack holds at least one scope; push and
\* pop leave position 0 (the scope made by new) as it was, the other calls keep
\* the depth; a pop with only the global scope left changes nothing.
C7_GlobalScopeNeverPopped ==
    /\ Len(environments) >= 1
    /\ env_last.op \in {"push", "pop"} => environments[1] = env_last.before[1]
    /\ env_last.op = "push" => Len(environments) = Len(env_last.before) + 1
    /\ env_last.op \in {"define", "define_global", "assign", "get"} =>
           Len(environments) = Len(env_last.before)
    /\ (env_last.op = "pop" /\ Len(env_last.before) > 1) =>
           environments = SubSeq(env_last.before, 1, Len(env_last.before) - 1)
    /\ (env_last.op = "pop" /\ Len(env_last.before) = 1) =>
           environments = env_last.before

\* a pop on a stack that holds only a non-empty global scope
C7_Witness ==
    /\ env_last.op = "pop"
    /\ Len(env_last.before) = 1
    /\ DOMAIN env_last.before[1] = Names

\* C8: get returns the value of the innermost scope binding the name, fails
\* with "Undefined variable" carrying the token exactly when no scope binds
\* it, and leaves the environment as it was.
C8_GetInnermostBinding ==
    env_last.op = "get" =>
        LET b == env_last.before
            n == env_last.name.lexeme
            r == env_last.result
        IN  /\ environments = b
            /\ r.ok <=> Defining(b, n) # {}
            /\ r.ok => r.value = b[Innermost(b, n)][n]
            /\ ~r.ok => r.error = UndefinedError(env_last.name)

\* a get of a name that two scopes bind to different values
C8_Witness ==
    /\ env_last.op = "get"
    /\ Cardinality(Defining(env_last.before, env_last.name.lexeme)) >= 2
    /\ env_last.before[1][env_last.name.lexeme] # env_last.result.value

\* C9: assign overwrites the binding of the innermost scope that binds the
\* name and nothing else; with no binding it fails and changes nothing.
C9_AssignInnermostOnly ==
    env_last.op = "assign" =>
        LET b == env_last.before
            n == env_last.name.lexeme
            r == env_last.result
        IN  IF Defining(b, n) # {}
            THEN /\ r.ok
                 /\ Len(environments) = Len(b)
                 /\ \A j \in 1..Len(b) :
                        /\ DOMAIN environments[j] = DOMAIN b[j]
                        /\ \A m \in DOMAIN b[j] :
                               environments[j][m] =
                                   IF j = Innermost(b, n) /\ m = n
                                   THEN env_last.value ELSE b[j][m]
            ELSE /\ ~r.ok
                 /\ r.error = UndefinedError(env_last.name)
                 /\ environments = b

\* an assign of a new value to a name bound in an inner and in the global scope
C9_Witness ==
    /\ env_last.op = "assign"
    /\ Cardinality(Defining(env_last.before, env_last.name.lexeme)) >= 2
    /\ env_last.before[1][env_last.name.lexeme] # env_last.value
    /\ environments # env_last.before

\* C10: define changes the top scope only, and there only the binding of the
\* name: the scopes below and the other names of the top scope are unchanged,
\* also when an outer scope binds the name.
C10_DefineTopScopeOnly ==
    env_last.op = "define" =>
        LET b == env_last.before
            n == env_last.name.lexeme
            top == Len(b)
        IN  /\ Len(environments) = top
            /\ \A j \in 1..(top - 1) : environments[j] = b[j]
            /\ DOMAIN environments[top] = DOMAIN b[top] \cup {n}
            /\ environments[top][n] = env_last.value
            /\ \A m \in DOMAIN b[top] \ {n} : environments[top][m] = b[top][m]

\* a define, in an inner scope that binds another name, of a name the global
\* scope binds to another value
C10_Witness ==
    /\ env_last.op = "define"
    /\ Len(env_last.before) >= 2
    /\ env_last.name.lexeme \in DOMAIN env_last.before[1]
    /\ env_last.before[1][env_last.name.lexeme] # env_last.value
    /\ env_last.name.lexeme \notin DOMAIN env_last.before[Len(env_last.before)]
    /\ DOMAIN env_last.before[Len(env_last.before)] # {}

(***************************************************************************)
(* Properties of the interpreter (SpecInterp)                              *)
(***************************************************************************)

\* C1: every execute_block call that returns, with Ok or with Err, at any
\* nesting depth, returns with the scope stack as deep as it was at entry;
\* between top-level statements and after interpret returns the stack holds
\* only the global scope.
C1_BlockScopeBalanced ==
    /\ \A k \in 1..Len(block_log) : block_log[k].exit = block_log[k].entry
    /\ Len(interpreter.environment) = 1

\* interpret has returned and a block nested in another block returned Err
C1_Witness ==
    /\ control = "returned"
    /\ \E k \in 1..Len(block_log) : ~block_log[k].ok /\ block_log[k].entry >= 2
    /\ \E k \in 1..Len(block_log) : block_log[k].ok

\* C2: interpret executes every statement once and in order, each against the
\* environment the one before left; every failing statement is reported once
\* and the loop goes on: when interpret returns all statements were executed.
C2_RuntimeErrorNeverStopsRun ==
    /\ Len(executed) = pc - 1
    /\ \A k \in 1..Len(executed) : executed[k].index = k
    /\ \A k \in 1..(Len(executed) - 1) : executed[k + 1].before = executed[k].after
    /\ Len(executed) > 0 => executed[Len(executed)].after = interpreter.environment
    /\ Len(stderr) = Cardinality({k \in 1..Len(executed) : executed[k].status = "err"})
    /\ interpreter.error_reporter.had_runtime_error <=>
           \E k \in 1..Len(executed) : executed[k].status = "err"
    /\ control = "returned" => Len(executed) = Len(statements)

\* a run whose first statement failed and whose second one then defined a variable
C2_Witness ==
    /\ control = "returned"
    /\ Len(executed) = 2
    /\ executed[1].status = "err"
    /\ executed[2].status = "ok"
    /\ executed[2].after # executed[2].before

Falsy(value) == value = Nil \/ value = Boolean(FALSE)

\* C3: for a top-level `print l and|or r` whose left operand evaluates to a
\* value: when that value decides the result (truthy for or, falsy for and)
\* the statement succeeds, prints the left value and leaves the environment as
\* the left operand left it, whatever r would do; otherwise its outcome is the
\* one of r evaluated after l.
C3_LogicalShortCircuit ==
    \A k \in 1..Len(executed) :
        LET stmt == statements[executed[k].index]
        IN  (stmt.type = "Print" /\ stmt.expr.type = "Logical") =>
                LET e == stmt.expr
                    l == Evaluate(e.left, executed[k].before)
                    short == IF e.op.token_type = "Or" THEN ~Falsy(l.value)
                             ELSE Falsy(l.value)
                    r == Evaluate(e.right, l.envs)
                IN  l.ok =>
                        IF short
                        THEN /\ executed[k].status = "ok"
                             /\ executed[k].after = l.envs
                             /\ executed[k].out = <<Display(l.value)>>
                        ELSE /\ executed[k].status = (IF r.ok THEN "ok" ELSE "err")
                             /\ executed[k].after = r.envs
                             /\ r.ok => executed[k].out = <<Display(r.value)>>
                             /\ ~r.ok => executed[k].error = r.error

\* `print false and -"s";` succeeded and printed false
C3_Witness ==
    \E k \in 1..Len(executed) :
        LET stmt == statements[executed[k].index]
        IN  /\ stmt.type = "Print"
            /\ stmt.expr.type = "Logical"
            /\ stmt.expr.op.token_type = "And"
            /\ stmt.expr.right = Fail
            /\ executed[k].status = "ok"
            /\ executed[k].out = <<"false">>

\* the top-level statement of the k-th entry of executed
ExecutedStmt(k) == statements[executed[k].index]

\* a block whose first statement is a var declaration
ShadowingBlock(stmt) ==
    /\ stmt.type = "Block"
    /\ Len(stmt.statements) >= 1
    /\ stmt.statements[1].type = "Var"

\* C11: for a top-level block that starts with `var n = <literal>`: a
\* `print n;` that follows it inside the block prints the inner value, and
\* after the block get returns for n what it returned before the block (the
\* outer value, or the undefined-variable error); the declaration changes no
\* outer scope.
C11_ShadowingUndoneByBlockExit ==
    \A k \in 1..Len(executed) :
        ShadowingBlock(ExecutedStmt(k)) =>
            LET inner == ExecutedStmt(k).statements
                name == inner[1].name
                e == executed[k]
            IN  /\ EnvGet(e.after, name) = EnvGet(e.before, name)
                /\ (/\ Len(inner) >= 2
                    /\ inner[1].initializer # None
                    /\ inner[1].initializer.type = "Literal"
                    /\ inner[2] = StmtPrint(ExprVariable(name))) =>
                        /\ Len(e.out) >= 1
                        /\ e.out[1] = Display(inner[1].initializer.value)

\* `var a = 1; { var a = "s"; print a; }`: the block printed "s" and a is 1 after it
C11_Witness ==
    \E k \in 1..Len(executed) :
        /\ ExecutedStmt(k) = StmtBlock(<<StmtVar(Ident("a"), Lit(String("s"))), StmtPrint(VarA)>>)
        /\ EnvGet(executed[k].before, Ident("a")) = [ok |-> TRUE, value |-> Number(1)]
        /\ executed[k].out = <<Display(String("s"))>>
        /\ EnvGet(executed[k].after, Ident("a")) = [ok |-> TRUE, value |-> Number(1)]

\* C12: a top-level block adds no name to the global scope; a top-level
\* `print n;` of a name the global scope does not bind fails with the
\* undefined-variable error of n, prints nothing, sets had_runtime_error, and
\* interpret still executes every statement after it.
C12_BlockLocalNotVisibleAfter ==
    /\ \A k \in 1..Len(executed) :
           ExecutedStmt(k).type = "Block" =>
               /\ Len(executed[k].after) = 1
               /\ DOMAIN executed[k].after[1] = DOMAIN executed[k].before[1]
    /\ \A k \in 1..Len(executed) :
           (/\ ExecutedStmt(k).type = "Print"
            /\ ExecutedStmt(k).expr.type = "Variable"
            /\ ExecutedStmt(k).expr.name.lexeme \notin DOMAIN executed[k].before[1]) =>
               /\ executed[k].status = "err"
               /\ executed[k].error = UndefinedVariable(ExecutedStmt(k).expr.name)
               /\ executed[k].out = <<>>
               /\ executed[k].after = executed[k].before
               /\ interpreter.error_reporter.had_runtime_error
    /\ control = "returned" => Len(executed) = Len(statements)

\* `{ var b = 1; } print b; var a = 1;` has returned: the block succeeded,
\* print b failed, and the third statement defined a
C12_Witness ==
    /\ control = "returned"
    /\ Len(executed) = 3
    /\ ExecutedStmt(1) = StmtBlock(<<StmtVar(Ident("b"), Lit(Number(1)))>>)
    /\ executed[1].status = "ok"
    /\ ExecutedStmt(2) = StmtPrint(VarB)
    /\ executed[2].status = "err"
    /\ executed[2].error = UndefinedVariable(Ident("b"))
    /\ executed[3].status = "ok"
    /\ "a" \in DOMAIN executed[3].after[1]

\* the value the operand expression evaluates to
OperandValue(expr) == (CHOOSE o \in Operands : o.expr = expr).value

\* interpret was given the one statement `var r = <left> <op> <right>;` with
\* an operator of ops, and has executed it
BinaryExecuted(ops) ==
    /\ Len(statements) = 1
    /\ Len(executed) = 1
    /\ statements[1].type = "Var"
    /\ statements[1].name = Ident("r")
    /\ statements[1].initializer # None
    /\ statements[1].initializer.type = "Binary"
    /\ statements[1].initializer.left \in OperandExprs
    /\ statements[1].initializer.right \in OperandExprs
    /\ statements[1].initializer.op \in ops

LeftValue == OperandValue(statements[1].initializer.left)

RightValue == OperandValue(statements[1].initializer.right)

\* the statement succeeded and r is bound to a value of the kind
ResultOfKind(kind) ==
    /\ executed[1].status = "ok"
    /\ "r" \in DOMAIN executed[1].after[1]
    /\ executed[1].after[1]["r"].kind = kind

\* the statement succeeded and r is bound to the value
ResultIs(value) ==
    /\ executed[1].status = "ok"
    /\ "r" \in DOMAIN executed[1].after[1]
    /\ executed[1].after[1]["r"] = value

\* the statement failed with the message, carrying its operator, and bound
\* nothing
FailedWith(message) ==
    /\ executed[1].status = "err"
    /\ executed[1].error = RuntimeError(message, statements[1].initializer.op)
    /\ executed[1].after = executed[1].before

\* C26: - / * > >= < <= give a value (a Number for - / *, a Boolean for the
\* comparisons) exactly when both operands are Numbers and fail otherwise
\* with "Operands must be two numbers" and the operator token; + gives the
\* sum of two Numbers, the concatenation of two Strings, and fails for every
\* other pair with "Operands must be two numbers or two strings".
C26_BinaryOperandKinds ==
    /\ BinaryExecuted(NumberOperators) =>
           IF LeftValue.kind = "Number" /\ RightValue.kind = "Number"
           THEN ResultOfKind(IF statements[1].initializer.op.token_type
                                    \in {"Minus", "Slash", "Star"}
                             THEN "Number" ELSE "Boolean")
           ELSE FailedWith("Operands must be two numbers")
    /\ BinaryExecuted({Tok("Plus", "+")}) =>
           IF LeftValue.kind = "Number" /\ RightValue.kind = "Number"
           THEN /\ ResultOfKind("Number")
                /\ (LeftValue.den = 1 /\ RightValue.den = 1) =>
                       ResultIs(Number(LeftValue.num + RightValue.num))
           ELSE IF LeftValue.kind = "String" /\ RightValue.kind = "String"
           THEN ResultIs(String(LeftValue.s \o RightValue.s))
           ELSE FailedWith("Operands must be two numbers or two strings")

\* `var r = 1 - 0;` bound r to 1, `var r = "s" + "s";` to "ss", and
\* `var r = 1 < nil;` failed
C26_Witness ==
    /\ control = "returned"
    /\ \/ /\ BinaryExecuted({Tok("Minus", "-")})
          /\ LeftValue = Number(1)
          /\ RightValue = Number(0)
          /\ ResultIs(Number(1))
       \/ /\ BinaryExecuted({Tok("Plus", "+")})
          /\ LeftValue = String("s")
          /\ RightValue = String("s")
          /\ ResultIs(String("ss"))
       \/ /\ BinaryExecuted({Tok("Less", "<")})
          /\ LeftValue = Number(1)
          /\ RightValue = Nil
          /\ FailedWith("Operands must be two numbers")

\* interpret was given `var r = <left> == <right>; var n = <left> != <right>;`
\* and has executed both statements
EqualityExecuted ==
    /\ Len(statements) = 2
    /\ Len(executed) = 2
    /\ statements[1].type = "Var"
    /\ statements[1].name = Ident("r")
    /\ statements[1].initializer # None
    /\ statements[1].initializer.type = "Binary"
    /\ statements[1].initializer.op = Tok("EqualEqual", "==")
    /\ statements[1].initializer.left \in OperandExprs
    /\ statements[1].initializer.right \in OperandExprs
    /\ statements[2] =
           StmtVar(Ident("n"), [statements[1].initializer EXCEPT !.op = Tok("BangEqual", "!=")])

\* neither statement failed, r is bound to the Boolean equal and n to its
\* negation
EqualityResult(equal) ==
    /\ executed[1].status = "ok"
    /\ executed[2].status = "ok"
    /\ stderr = <<>>
    /\ DOMAIN executed[2].after[1] = {"r", "n"}
    /\ executed[2].after[1]["r"] = Boolean(equal)
    /\ executed[2].after[1]["n"] = Boolean(~equal)

\* C27 as stated: == and != never fail, != is the negation of ==, and == is
\* true exactly when both values have the same kind and the same underlying
\* value.
C27_EqualityBySameValue ==
    EqualityExecuted => EqualityResult(LeftValue = RightValue)

\* C27, amended: == and != never fail, != is the negation of ==, and == is
\* true exactly when both values have the same kind and the same underlying
\* value and are not the Number NaN, which equals no value, itself included.
C27_EqualityExceptNaN ==
    EqualityExecuted => EqualityResult(LeftValue = RightValue /\ LeftValue # NaN)

\* `0/0 == 0/0` gave false and `0/0 != 0/0` true; or nil == nil gave true
C27_Witness ==
    /\ control = "returned"
    /\ EqualityExecuted
    /\ \/ LeftValue = NaN /\ RightValue = NaN /\ EqualityResult(FALSE)
       \/ LeftValue = Nil /\ RightValue = Nil /\ EqualityResult(TRUE)

\* every Number, every String and Boolean(true)
Truthy(value) == value.kind \in {"Number", "String"} \/ value = Boolean(TRUE)

\* all the statements given to interpret were executed
AllExecuted == Len(executed) = Len(statements)

\* C28: Nil and Boolean(false) are the only falsy values, every Number,
\* every String and Boolean(true) is truthy, and this rule decides `!`, If,
\* While, and, or; `!` never fails, and unary `-` negates a Number and fails
\* for every other operand with "Operand must be a number".
C28_Truthiness ==
    \A o \in Operands :
        /\ Truthy(o.value) <=> ~Falsy(o.value)
        /\ (statements = NotProgram(o.expr) /\ AllExecuted) =>
               ResultIs(Boolean(~Truthy(o.value)))
        /\ (statements = NegateProgram(o.expr) /\ AllExecuted) =>
               IF o.value.kind = "Number" THEN ResultOfKind("Number")
               ELSE FailedWith("Operand must be a number")
        /\ (statements = IfProgram(o.expr) /\ AllExecuted) =>
               /\ executed[1].status = "ok"
               /\ executed[1].out = (IF Truthy(o.value) THEN <<"1">> ELSE <<"2">>)
        /\ (statements = WhileProgram(o.expr) /\ AllExecuted) =>
               /\ executed[2].status = "ok"
               /\ executed[2].out = (IF Truthy(o.value) THEN <<"1">> ELSE <<>>)
        /\ (statements = LogicalProgram(o.expr, Tok("And", "and")) /\ AllExecuted) =>
               ResultIs(IF Truthy(o.value) THEN String("x") ELSE o.value)
        /\ (statements = LogicalProgram(o.expr, Tok("Or", "or")) /\ AllExecuted) =>
               ResultIs(IF Truthy(o.value) THEN o.value ELSE String("x"))

\* `if (0) print 1; else print 2;` printed 1, `var r = !"";` bound r to
\* false, or `var r = -nil;` failed
C28_Witness ==
    /\ control = "returned"
    /\ \/ /\ statements = IfProgram(Lit(Number(0)))
          /\ stdout = <<"1">>
       \/ /\ statements = NotProgram(Lit(String("")))
          /\ ResultIs(Boolean(FALSE))
       \/ /\ statements = NegateProgram(Lit(Nil))
          /\ FailedWith("Operand must be a number")

\* C29: a top-level `print a = <v>;` stores the value of v in the global
\* scope when it binds a and prints that value; when no scope binds a it
\* fails with the undefined-variable error and binds nothing. Inside a block
\* the assignment goes to the innermost scope that binds a: to the block's
\* own a when it declares one (the global a keeps its value), to the global
\* a otherwise (no a is made in the block).
C29_AssignmentStoresInnermost ==
    /\ \A k \in 1..Len(executed) :
           (ExecutedStmt(k).type = "Print" /\ ExecutedStmt(k).expr.type = "Assignment") =>
               LET name == ExecutedStmt(k).expr.name
                   rhs == ExecutedStmt(k).expr.value
                   e == executed[k]
               IN  IF rhs = Fail
                   THEN e.status = "err" /\ e.error = FailError /\ e.after = e.before
                   ELSE IF name.lexeme \in DOMAIN e.before[1]
                   THEN /\ e.status = "ok"
                        /\ e.out = <<Display(rhs.value)>>
                        /\ e.after = <<[e.before[1] EXCEPT ![name.lexeme] = rhs.value]>>
                   ELSE /\ e.status = "err"
                        /\ e.error = UndefinedVariable(name)
                        /\ e.out = <<>>
                        /\ e.after = e.before
    /\ \A x \in AssignedValues :
           /\ (statements = ShadowAssignProgram(Lit(x)) /\ AllExecuted) =>
                  /\ executed[2].status = "ok"
                  /\ executed[2].out = <<Display(x), Display(x)>>
                  /\ executed[2].after = executed[2].before
                  /\ executed[3].out = <<"1">>
           /\ (statements = OuterAssignProgram(Lit(x)) /\ AllExecuted) =>
                  /\ executed[2].status = "ok"
                  /\ executed[2].out = <<Display(x), "0">>
                  /\ DOMAIN executed[2].after[1] = {"a"}
                  /\ executed[2].after[1]["a"] = x
                  /\ executed[3].out = <<Display(x)>>
           /\ (statements = UnboundAssignProgram(Lit(x)) /\ AllExecuted) =>
                  /\ executed[1].status = "err"
                  /\ executed[1].error = UndefinedVariable(Ident("a"))
                  /\ executed[1].out = <<>>
                  /\ executed[1].after = <<EmptyMap>>
                  /\ executed[2].status = "err"
                  /\ executed[2].error = UndefinedVariable(Ident("a"))

\* `var a = 1; { var b = 0; print a = 2; print b; } print a;` printed 2, 0
\* and 2
C29_Witness ==
    /\ control = "returned"
    /\ statements = OuterAssignProgram(Lit(Number(2)))
    /\ stdout = <<"2", "0", "2">>
    /\ interpreter.environment = <<[a |-> Number(2)]>>

\* the texts print writes for the numbers 0 .. n - 1
Counted(n) == [i \in 1..n |-> ToString(i - 1)]

\* what holds while and after interpret runs the while programs
WhileOutcome ==
    /\ \A n \in 0..MaxIter :
           (statements \in {CounterProgram(n), PrintingCounterProgram(n)}) =>
               /\ control # "hung"
               /\ AllExecuted =>
                      /\ executed[2].status = "ok"
                      /\ executed[2].out =
                             (IF statements = CounterProgram(n) THEN <<>> ELSE Counted(n))
                      /\ interpreter.environment = <<[a |-> Number(n)]>>
                      /\ ~interpreter.error_reporter.had_runtime_error
                      /\ stderr = <<>>
    /\ (statements = FailingBodyProgram /\ AllExecuted) =>
           /\ executed[2].status = "err"
           /\ executed[2].error = FailError
           /\ executed[2].out = <<"0">>
           /\ interpreter.environment = <<[a |-> Number(0)]>>
           /\ interpreter.error_reporter.had_runtime_error
    /\ (statements = FailingConditionProgram /\ AllExecuted) =>
           /\ executed[2].status = "err"
           /\ executed[2].error =
                  RuntimeError("Operands must be two numbers", Tok("Less", "<"))
           /\ executed[2].out = <<"0">>
           /\ interpreter.environment = <<[a |-> String("s")]>>
    /\ \A c \in {Lit(Boolean(FALSE)), Lit(Nil), Fail} :
           (statements = NeverProgram(c) /\ AllExecuted) =>
               /\ executed[1].status = (IF c = Fail THEN "err" ELSE "ok")
               /\ c = Fail => executed[1].error = FailError
               /\ executed[1].out = <<>>
               /\ executed[1].after = executed[1].before

\* interpret was given one of the counter loops
CounterGiven == \E n \in 0..MaxIter : statements = CounterProgram(n)

\* interpret has returned from it with a bound to its N
CounterDone ==
    /\ control = "returned"
    /\ \E n \in 0..MaxIter :
           /\ statements = CounterProgram(n)
           /\ interpreter.environment = <<[a |-> Number(n)]>>

\* C30: the condition is evaluated before every iteration and the body runs
\* only while it is truthy: a loop whose condition is falsy at entry runs the
\* body zero times; an error of the condition or of the body ends the loop
\* at once and is the statement's error; and `var a = 0; while (a < N)
\* { a = a + 1; }` terminates: each of its two statements returns Ok when
\* interpret comes to it, interpret never hangs, and it returns with a bound
\* to N in the global scope, no runtime error, and only the global scope on
\* the stack.
C30_WhileLoop ==
    /\ WhileOutcome
    /\ CounterGiven =>
           /\ control \in {"interpret", "returned"}
           /\ (control = "interpret" /\ pc <= Len(statements)) =>
                  Execute(statements[pc], CurrentSt).status = "ok"
           /\ control = "returned" => CounterDone

\* the loop counted to MaxIter and interpret returned
C30_Witness ==
    /\ control = "returned"
    /\ statements = CounterProgram(MaxIter)
    /\ interpreter.environment = <<[a |-> Number(MaxIter)]>>
    /\ ~interpreter.error_reporter.had_runtime_error

\* C31: a top-level If statement evaluates its condition once; when the
\* condition fails the statement fails with that error and runs no branch;
\* otherwise its outcome is the one of the then-branch alone when the value is
\* truthy, of the else-branch alone when it is falsy and there is one, and of
\* no statement at all when it is falsy and there is none.
C31_IfExecutesOneBranch ==
    /\ \A k \in 1..Len(executed) :
           LET stmt == ExecutedStmt(k)
               e == executed[k]
           IN  stmt.type = "If" =>
                   LET c == Evaluate(stmt.condition, e.before)
                       chosen == IF Truthy(c.value) THEN stmt.then_branch
                                 ELSE stmt.else_branch
                       b == Execute(chosen, [environment |-> c.envs, stdout |-> <<>>,
                                             block_log |-> <<>>])
                   IN  IF ~c.ok
                       THEN /\ e.status = "err"
                            /\ e.error = c.error
                            /\ e.after = c.envs
                            /\ e.out = <<>>
                       ELSE IF chosen = None
                       THEN /\ e.status = "ok"
                            /\ e.after = c.envs
                            /\ e.out = <<>>
                       ELSE /\ e.status = b.status
                            /\ e.after = b.st.environment
                            /\ e.out = b.st.stdout
                            /\ b.status = "err" => e.error = b.error
    /\ \A n \in 1..2 :
           /\ (statements = IfElseProgram(n) /\ AllExecuted) =>
                  stdout = <<IF n = 2 THEN "\"then\"" ELSE "\"else\"", "1">>
           /\ (statements = IfOnlyProgram(n) /\ AllExecuted) =>
                  stdout = (IF n = 2 THEN <<"\"then\"", "1">> ELSE <<"1">>)
    /\ (statements = IfFailingProgram /\ AllExecuted) =>
           /\ stdout = <<>>
           /\ executed[1].error = FailError
    /\ \A o \in Operands :
           (statements = IfValueProgram(o.expr) /\ AllExecuted) =>
               /\ executed[1].status = "ok"
               /\ stdout = (IF Truthy(o.value) THEN <<"\"then\"">> ELSE <<>>)

\* the condition that counts was falsy: the else-branch alone was printed and
\* a was incremented once; and an If without else-branch printed nothing
C31_Witness ==
    /\ control = "returned"
    /\ \/ /\ statements = IfElseProgram(1)
          /\ stdout = <<"\"else\"", "1">>
       \/ /\ statements = IfOnlyProgram(1)
          /\ stdout = <<"1">>

\* C32: a top-level Var statement (its innermost scope is the global one)
\* whose initializer gives a value, or that has none (Nil), succeeds and
\* changes the scopes just by binding the name to that value, bound before or
\* not; one whose initializer fails, fails with that error and changes no
\* binding. Inside a block the name is bound in the scope of the block: the
\* block reads the new value and the outer binding is as before.
C32_VarBindsInnermost ==
    /\ \A k \in 1..Len(executed) :
           LET stmt == ExecutedStmt(k)
               e == executed[k]
               name == stmt.name.lexeme
               top == Len(e.before)
           IN  stmt.type = "Var" =>
                   LET v == IF stmt.initializer = None THEN Ok(Nil, e.before)
                            ELSE Evaluate(stmt.initializer, e.before)
                   IN  IF v.ok
                       THEN /\ e.status = "ok"
                            /\ Len(e.after) = top
                            /\ \A i \in 1..(top - 1) : e.after[i] = v.envs[i]
                            /\ DOMAIN e.after[top] = DOMAIN v.envs[top] \cup {name}
                            /\ e.after[top][name] = v.value
                            /\ \A n \in DOMAIN v.envs[top] \ {name} :
                                   e.after[top][n] = v.envs[top][n]
                       ELSE /\ e.status = "err"
                            /\ e.error = v.error
                            /\ e.after = v.envs
    /\ \A o \in Operands :
           /\ (statements = RedeclareProgram(o.expr) /\ AllExecuted) =>
                  /\ stderr = <<>>
                  /\ interpreter.environment = <<[a |-> o.value]>>
           /\ (statements = ScopedVarProgram(o.expr) /\ AllExecuted) =>
                  /\ stdout = <<Display(o.value), "nil", "1">>
                  /\ executed[4].error = UndefinedVariable(Ident("b"))
                  /\ interpreter.environment = <<[a |-> Number(1)]>>
    /\ (statements = RedeclareProgram(None) /\ AllExecuted) =>
           /\ stderr = <<>>
           /\ interpreter.environment = <<[a |-> Nil]>>
    /\ (statements = RedeclareProgram(Fail) /\ AllExecuted) =>
           /\ executed[2].error = FailError
           /\ interpreter.environment = <<[a |-> Number(1)]>>
    /\ (statements = ScopedFailingVarProgram /\ AllExecuted) =>
           /\ executed[2].error = FailError
           /\ stdout = <<"1">>

\* `var a = 1; var a = "s";` ended without error with a bound to "s", or
\* `var a = 1; var a = -"s";` ended with a still bound to 1
C32_Witness ==
    /\ control = "returned"
    /\ \/ /\ statements = RedeclareProgram(Lit(String("s")))
          /\ interpreter.environment = <<[a |-> String("s")]>>
          /\ stderr = <<>>
       \/ /\ statements = RedeclareProgram(Fail)
          /\ interpreter.environment = <<[a |-> Number(1)]>>
          /\ Len(stderr) = 1

\* the statement inside the nesting made by Nest
RECURSIVE InnermostNested(_)
InnermostNested(s) ==
    CASE s.type = "Block" /\ Len(s.statements) = 1 -> InnermostNested(s.statements[1])
      [] s.type = "If" /\ s.condition = Lit(Boolean(TRUE)) /\ s.else_branch = None ->
            InnermostNested(s.then_branch)
      [] s.type = "If" /\ s.condition = Lit(Nil) /\ s.else_branch # None ->
            InnermostNested(s.else_branch)
      [] s.type = "While" /\ s.condition = Lit(Boolean(TRUE)) -> InnermostNested(s.body)
      [] OTHER -> s

\* the entries of the top-level statements that failed, in order
Failed == SelectSeq(executed, LAMBDA e : e.status = "err")

\* C34: the lines runtime_error printed are those of the errors of the
\* top-level statements that failed, one each and in order, and after
\* interpret had_runtime_error is set exactly when one failed; a statement
\* that raises an error, nested up to MaxNest deep in blocks, if branches and
\* while bodies of the first statement (no variable is bound yet), makes its
\* top-level statement fail with that very error.
C34_NoRuntimeErrorDiscarded ==
    /\ Len(stderr) = Len(Failed)
    /\ \A i \in 1..Len(Failed) : stderr[i] = RuntimeErrorLine(Failed[i].error)
    /\ interpreter.error_reporter.had_runtime_error <=> Failed # <<>>
    /\ \A r \in Raising :
           (InnermostNested(statements[1]) = r.stmt /\ Len(executed) >= 1) =>
               /\ executed[1].status = "err"
               /\ executed[1].error = r.error
               /\ stderr[1] = RuntimeErrorLine(r.error)
               /\ interpreter.error_reporter.had_runtime_error

\* `-"s";` at the deepest nesting, inside a while body, was reported once
\* and interpret returned after the statement that follows
C34_Witness ==
    /\ control = "returned"
    /\ \E kinds \in Nestings :
           /\ Len(kinds) = MaxNest
           /\ kinds[MaxNest] = "while"
           /\ kinds[1] = "block"
           /\ statements = NestedProgram(kinds, StmtExpression(Fail))
    /\ stderr = <<RuntimeErrorLine(FailError)>>
    /\ stdout = <<"1">>
    /\ interpreter.error_reporter.had_runtime_error

\* a RuntimeError: a message and a token
IsRuntimeError(error) == DOMAIN error = {"message", "token"}

\* C35: evaluate gives a Value or a RuntimeError for the expression of every
\* Print and Expression statement interpret is about to execute, whatever
\* variants it is made of (Call among them), so interpret is never left
\* without a result.
C35_EveryExprVariantEvaluated ==
    /\ control # "unhandled"
    /\ (control = "interpret" /\ pc <= Len(statements)
            /\ statements[pc].type \in {"Print", "Expression"}) =>
           LET r == Evaluate(statements[pc].expr, interpreter.environment)
           IN  r.ok \/ IsRuntimeError(r.error)

\* the indices of the statements `-"s";` of a block
FailingAt(stmts) == {j \in 1..Len(stmts) : stmts[j] = StmtExpression(Fail)}

\* C38: a top-level block with a statement `-"s";`, whose statements before
\* it succeed, fails and leaves the scopes and the output that the block of
\* those statements alone leaves: their writes to the outer scopes are kept,
\* what they declared is gone, and no statement after the failing one has
\* run. The same for a failure in a loop body, in a later iteration, and in a
\* nested block.
C38_NoRollbackOnRuntimeError ==
    /\ \A k \in 1..Len(executed) :
           LET stmt == ExecutedStmt(k)
               e == executed[k]
           IN  (stmt.type = "Block" /\ FailingAt(stmt.statements) # {}) =>
                   LET j == CHOOSE i \in FailingAt(stmt.statements) :
                                \A h \in FailingAt(stmt.statements) : i <= h
                       before == Execute(StmtBlock(SubSeq(stmt.statements, 1, j - 1)),
                                         [environment |-> e.before, stdout |-> <<>>,
                                          block_log |-> <<>>])
                   IN  before.status = "ok" =>
                           /\ e.status = "err"
                           /\ e.error = FailError
                           /\ e.after = before.st.environment
                           /\ e.out = before.st.stdout
                           /\ Len(e.after) = Len(e.before)
    /\ (statements = FailingBlockProgram /\ AllExecuted) =>
           /\ executed[2].error = FailError
           /\ executed[2].after = <<[a |-> Number(2)]>>
           /\ stdout = <<"2", "2">>
           /\ executed[4].error = UndefinedVariable(Ident("b"))
    /\ (statements = FailingLoopProgram /\ AllExecuted) =>
           /\ executed[2].error = FailError
           /\ executed[2].after = <<[a |-> Number(2)]>>
           /\ stdout = <<"1", "2">>
           /\ executed[4].error = UndefinedVariable(Ident("b"))
    /\ (statements = FailingNestedProgram /\ AllExecuted) =>
           /\ executed[2].error = FailError
           /\ executed[2].after = <<[a |-> Number(2)]>>
           /\ stdout = <<"2", "2">>
           /\ executed[4].error = UndefinedVariable(Ident("b"))
    /\ (statements = FailingBareLoopProgram /\ AllExecuted) =>
           /\ executed[2].status = "err"
           /\ executed[2].after = <<[a |-> Number(1)]>>
           /\ stdout = <<"1">>

\* the loop failed in its second iteration: a kept the 2 that iteration
\* assigned, and the print after the failing statement ran in the first
\* iteration only
C38_Witness ==
    /\ control = "returned"
    /\ statements = FailingLoopProgram
    /\ executed[2].status = "err"
    /\ interpreter.environment = <<[a |-> Number(2)]>>
    /\ stdout = <<"1", "2">>

(***************************************************************************)
(* Properties of the scanner (SpecScan)                                    *)
(***************************************************************************)

\* C6: the scanner never aborts: for every source scan_tokens runs to the
\* end of the input, no call panics and the char cursor is never read at a
\* position past the end of the source.
C6_ScannerNeverAborts ==
    /\ scan_control # "panicked"
    /\ ~scanner.panicked
    /\ ~scanner.past_end

\* the token type of the operator c followed by '='
TwoCharToken(c) ==
    CASE c = "!" -> "BangEqual" [] c = "=" -> "EqualEqual"
      [] c = "<" -> "LessEqual" [] c = ">" -> "GreaterEqual"

\* C20: the exact texts != == <= >= are scanned to one token of the
\* two-char type and Eof; and in any source, a token that starts at a ! = < or
\* > with a = right after it takes both chars and is the two-char token, never
\* the one-char token.
C20_LongestOperator ==
    /\ (/\ scan_control = "returned"
        /\ Len(scanner.source) = 2
        /\ scanner.source[1] \in {"!", "=", "<", ">"}
        /\ scanner.source[2] = "=") =>
           scanner.tokens =
               <<Token(TwoCharToken(scanner.source[1]), Text(scanner.source), None, 1),
                 Token("Eof", "", None, 1)>>
    /\ (/\ scan_control = "scanning"
        /\ scanner.current > scanner.start
        /\ CharAt(scanner.source, scanner.start) \in {"!", "=", "<", ">"}
        /\ CharAt(scanner.source, scanner.start + 1) = "=") =>
           /\ scanner.current = scanner.start + 2
           /\ scanner.tokens # <<>>
           /\ scanner.tokens[Len(scanner.tokens)].token_type =
                  TwoCharToken(CharAt(scanner.source, scanner.start))

\* `<=` was scanned to LessEqual and Eof, or the `==` of `!==` was not split:
\* BangEqual, Equal and Eof
C20_Witness ==
    /\ scan_control = "returned"
    /\ \/ /\ scanner.source = <<"<", "=">>
          /\ scanner.tokens = <<Token("LessEqual", "<=", None, 1), Token("Eof", "", None, 1)>>
       \/ /\ scanner.source = <<"!", "=", "=">>
          /\ scanner.tokens = <<Token("BangEqual", "!=", None, 1), Token("Equal", "=", None, 1),
                                Token("Eof", "", None, 1)>>

\* the number of digits 0..9 of the source from the char with index from on
RECURSIVE DigitRun(_, _)
DigitRun(source, from) ==
    IF from < Len(source) /\ source[from + 1] \in Digits
    THEN 1 + DigitRun(source, from + 1)
    ELSE 0

\* where the number that starts at the char with index from ends: after its
\* digits, and after a '.' and more digits if a digit follows the '.'
NumberEnd(source, from) ==
    LET dot == from + DigitRun(source, from)
    IN  IF /\ dot + 1 < Len(source)
           /\ source[dot + 1] = "."
           /\ source[dot + 2] \in Digits
        THEN dot + 1 + DigitRun(source, dot + 1)
        ELSE dot

\* the token scan_token has just pushed
LastToken == scanner.tokens[Len(scanner.tokens)]

\* scan_token has just scanned the chars from start to current, without a panic
Scanned ==
    /\ scan_control = "scanning"
    /\ scanner.current > scanner.start

\* C21: a token that starts at a digit is one Number token that ends after
\* the digits, or after digits '.' digits; a '.' that no digit follows is not
\* part of it, and is scanned next as a Dot token of its own.
C21_NumberTakesDotOnlyBeforeDigit ==
    /\ (Scanned /\ CharAt(scanner.source, scanner.start) \in Digits) =>
           /\ scanner.current = NumberEnd(scanner.source, scanner.start)
           /\ scanner.tokens # <<>>
           /\ LastToken.token_type = "Number"
    /\ (Scanned /\ CharAt(scanner.source, scanner.start) = ".") =>
           /\ scanner.current = scanner.start + 1
           /\ scanner.tokens # <<>>
           /\ LastToken.token_type = "Dot"

\* `1.` was scanned to Number 1, Dot and Eof, or `1.1` to one Number and Eof
C21_Witness ==
    /\ scan_control = "returned"
    /\ \/ /\ scanner.source = <<"1", ".">>
          /\ scanner.tokens =
                 <<Token("Number", "1", Number(1), 1), Token("Dot", ".", None, 1),
                   Token("Eof", "", None, 1)>>
       \/ /\ scanner.source = <<"1", ".", "1">>
          /\ scanner.tokens =
                 <<Token("Number", "1.1", Frac(11, 10), 1), Token("Eof", "", None, 1)>>

\* the indexes of the chars '"' of the source after the char with index from
QuotesAfter(source, from) == {k \in (from + 1)..(Len(source) - 1) : CharAt(source, k) = "\""}

\* the index of the first of them
ClosingQuote(source, from) ==
    CHOOSE k \in QuotesAfter(source, from) : \A j \in QuotesAfter(source, from) : k <= j

\* a call of scan_token that starts at a '"' and returns
ScansString ==
    /\ scan_control = "scanning"
    /\ scan_control' = "scanning"
    /\ scanner' # scanner
    /\ CharAt(scanner.source, scanner.current) = "\""

ReservedWords ==
    {"and", "class", "else", "false", "for", "fun", "if", "nil", "or", "print", "return",
     "super", "this", "true", "var", "while"}

\* the number of alphanumeric chars of the source from the char with index
\* from on
RECURSIVE AlphanumericRun(_, _)
AlphanumericRun(source, from) ==
    IF from < Len(source) /\ IsAlphanumeric(source[from + 1])
    THEN 1 + AlphanumericRun(source, from + 1)
    ELSE 0

\* a call of scan_token that starts at a char of the set first and returns
ScansWord(first) ==
    /\ scan_control = "scanning"
    /\ scan_control' = "scanning"
    /\ scanner' # scanner
    /\ CharAt(scanner.source, scanner.current) \in first

\* what such a call does when it scans an identifier: it takes the first char
\* and the alphanumeric chars after it, pushes one token, a keyword when the
\* whole text is a reserved word and an Identifier otherwise, and reports
\* nothing
ScannedWord ==
    LET end == scanner.current + 1 + AlphanumericRun(scanner.source, scanner.current + 1)
        text == Text(SubSeq(scanner.source, scanner.current + 1, end))
    IN  /\ scanner'.current = end
        /\ scanner'.reported = scanner.reported
        /\ Len(scanner'.tokens) = Len(scanner.tokens) + 1
        /\ SubSeq(scanner'.tokens, 1, Len(scanner.tokens)) = scanner.tokens
        /\ scanner'.tokens[Len(scanner'.tokens)].token_type = Keyword(text)
        /\ scanner'.tokens[Len(scanner'.tokens)].token_type = "Identifier"
               <=> text \notin ReservedWords

\* C23: a token that starts at an alphabetic char or at an underscore is an
\* identifier: the alphanumeric chars after it are taken, one token is
\* pushed, of the keyword type when the whole text is a reserved word and
\* Identifier otherwise, and no error is reported.
C23_AlphabeticOrUnderscoreBeginsIdentifier ==
    [][ScansWord(Letters \cup {"<e9>", "_"}) => ScannedWord]_vars

\* the same for the chars char::is_alphabetic holds of, the underscore not
\* among them
C23_AlphabeticBeginsIdentifier ==
    [][ScansWord(Letters \cup {"<e9>"}) => ScannedWord]_vars

\* the number of newline chars of the source
Newlines(source) == Cardinality({k \in 1..Len(source) : source[k] = "\n"})

\* C24: the tokens scan_tokens returns hold exactly one Eof token, the last
\* one, and its line is 1 plus the number of newline chars of the source,
\* those inside comments and strings included.
C24_OneEofOnFinalLine ==
    scan_control = "returned" =>
        /\ scanner.tokens # <<>>
        /\ \A k \in 1..Len(scanner.tokens) :
               scanner.tokens[k].token_type = "Eof" <=> k = Len(scanner.tokens)
        /\ LastToken.line = 1 + Newlines(scanner.source)

\* a newline inside a string, or after a comment, was counted
C24_Witness ==
    /\ scan_control = "returned"
    /\ \/ /\ scanner.source = <<"\"", "\n", "\"">>
          /\ scanner.tokens =
                 <<Token("String", "\"\n\"", String("\n"), 2), Token("Eof", "", None, 2)>>
       \/ /\ scanner.source = <<"/", "/", "\n">>
          /\ scanner.tokens = <<Token("Eof", "", None, 2)>>

\* C25: a second call of scan_tokens for the same source returns the tokens
\* the first call returned: the cursor, the token list and the error flag the
\* first call left in the Scanner do not change the result.
C25_SecondScanIdentical ==
    [][scan_control' = "returned again" => scanner'.tokens = scanner.tokens]_vars

\* what the second call returns: the tokens of the first call and one more Eof
C25_SecondScanAddsEof ==
    [][scan_control' = "returned again" =>
           scanner'.tokens = Append(scanner.tokens, Token("Eof", "", None, scanner.line))]_vars

(***************************************************************************)
(* Properties of the parser (SpecParse)                                    *)
(***************************************************************************)

\* the token the cursor c is at
TokenAt(c) == parser.tokens[c + 1]

\* the entries of parse_log where declaration returned Some
IsSome(entry) == entry.some

\* C13: parse catches every parse failure inside declaration: each
\* declaration call starts where the one before ended and moves the cursor
\* forward; the statements are the nodes of the calls that returned Some, in
\* order, none for a call that failed; a failed call skips no `;` other than
\* as the last token it discards, so the statements after it are parsed, each
\* to the node a parser started on those tokens yields; parse returns at Eof.
C13_ParseFailureCaughtAtDeclaration ==
    /\ parse_control \in {"parse", "returned"} =>
           statements = [i \in 1..Len(SelectSeq(parse_log, IsSome)) |->
                             SelectSeq(parse_log, IsSome)[i].node]
    /\ \A k \in 1..Len(parse_log) :
           /\ parse_log[k].start = IF k = 1 THEN 0 ELSE parse_log[k - 1].end
           /\ parse_log[k].start < parse_log[k].end
           /\ parse_log[k].end < Len(parser.tokens)
           /\ ~parse_log[k].some =>
                  \A c \in parse_log[k].error_at..(parse_log[k].end - 2) :
                      TokenAt(c).token_type # "Semicolon"
           /\ parse_log[k].some =>
                  parse_log[k].node =
                      ParseDeclaration(ParserNew(SubSeq(parser.tokens, parse_log[k].start + 1,
                                                        Len(parser.tokens)))).node
    /\ parser.current = IF parse_log = <<>> THEN 0 ELSE parse_log[Len(parse_log)].end
    /\ parse_control = "returned" => ParserIsAtEnd(parser)

\* parse has returned a statement that follows a broken one
C13_Witness ==
    /\ parse_control = "returned"
    /\ \E k \in 1..Len(parse_log) :
           /\ ~parse_log[k].some
           /\ \E j \in (k + 1)..Len(parse_log) : parse_log[j].some
    /\ statements # <<>>

\* the messages of the errors that raise no ParseError
NonFatalMessages == {"Invalid assignment target", "Too many arguments in function call."}

\* the message of a reported line
MessageOf(report) == report[6]

\* the tokens with a `;` put in before the token at cursor c
WithSemicolon(tokens, c) ==
    SubSeq(tokens, 1, c) \o <<Token("Semicolon", ";", None, 1)>>
        \o SubSeq(tokens, c + 1, Len(tokens))

\* the tokens are well formed but for one statement that lacks its `;`
OneMissingSemicolon(tokens) ==
    \E c \in 0..(Len(tokens) - 1) :
        Parse(ParserNew(WithSemicolon(tokens, c))).p.reported = <<>>

\* C14: one broken statement gives one diagnostic: when the tokens are well
\* formed but for one statement that lacks its `;`, in a block or not, parse
\* reports exactly one error.
C14_OneDiagnosticPerBrokenConstruct ==
    parse_control = "returned" =>
        \/ Len(parser.reported) <= 1
        \/ \E i \in 1..Len(parser.reported) : MessageOf(parser.reported[i]) \in NonFatalMessages
        \/ ~OneMissingSemicolon(parser.tokens)

\* the cursor c is where synchronize stops
SyncPoint(c) ==
    \/ TokenAt(c).token_type = "Eof"
    \/ c >= 1 /\ TokenAt(c - 1).token_type = "Semicolon"
    \/ TokenAt(c).token_type \in
           {"Class", "For", "Fun", "If", "Print", "Return", "Var", "While"}

ForWhile(cond, incr, body) ==
    StmtWhile(IF cond.node = None THEN Lit(Boolean(TRUE)) ELSE cond.node,
              IF incr.node = None THEN body.node
              ELSE StmtBlock(<<body.node, StmtExpression(incr.node)>>))

\* the tokens are those of the for statement of these parts, and its
\* declaration call has returned
ForParsed(init, cond, incr, body) ==
    /\ parser.tokens = Append(ForTokens(init, cond, incr, body), Eof)
    /\ parse_log # <<>>

\* C16 as the spec states it: every for statement with a body becomes a Block
\* of the initializer, when there is one, and the While.
C16_ForAlwaysBlock ==
    \A init \in ForInitializers, cond \in ForConditions, incr \in ForIncrements,
       body \in ForBodies :
        (ForParsed(init, cond, incr, body) /\ body.node # None) =>
            /\ parse_log[1].some
            /\ parse_log[1].node =
                   StmtBlock((IF init.node = None THEN <<>> ELSE <<init.node>>)
                                 \o <<ForWhile(cond, incr, body)>>)

\* C16, amended: a for statement with a body becomes the Block of its
\* initializer and the While when it has an initializer, and the While alone
\* when it has none; the While has the condition, or the literal true, and as
\* body the Block of the body and the increment as expression statement, or
\* the body alone; nothing is reported.
C16_ForDesugared ==
    \A init \in ForInitializers, cond \in ForConditions, incr \in ForIncrements,
       body \in ForBodies :
        (ForParsed(init, cond, incr, body) /\ body.node # None) =>
            /\ parse_log[1].some
            /\ parse_log[1].reports = <<>>
            /\ parse_log[1].end = Len(parser.tokens) - 1
            /\ parse_log[1].node =
                   IF init.node = None THEN ForWhile(cond, incr, body)
                   ELSE StmtBlock(<<init.node, ForWhile(cond, incr, body)>>)

\* `for (var a = 1; a < 2; a = a + 1) print a;` was parsed to
\* Block[Var(a, 1), While(a < 2, Block[Print(a), Expression(a = a + 1)])]
C16_Witness ==
    /\ parse_control = "returned"
    /\ parser.error_reporter.had_error = FALSE
    /\ parser.tokens[1].token_type = "For"
    /\ statements =
           <<StmtBlock(<<StmtVar(Ident("a"), Lit(Number(1))),
                         StmtWhile(ALess2,
                                   StmtBlock(<<StmtPrint(VarA), StmtExpression(IncA)>>))>>)>>

\* The expected tree of an operator chain `operand (operator operand)* ;` is
\* computed from the tokens without the parser: the operands are read off, the
\* tightest operator is reduced first, the leftmost one among equals.

BinaryOperators ==
    {"Star", "Slash", "Plus", "Minus", "Less", "LessEqual", "Greater", "GreaterEqual",
     "EqualEqual", "BangEqual"}

\* the operand that starts at tokens[i]: a number, a name or ( number op number )
ReadOperand(tokens, i) ==
    IF tokens[i].token_type = "Number"
    THEN [ok |-> TRUE, node |-> ExprLiteral(tokens[i].literal), next |-> i + 1]
    ELSE IF tokens[i].token_type = "Identifier"
    THEN [ok |-> TRUE, node |-> ExprVariable(tokens[i]), next |-> i + 1]
    ELSE IF /\ tokens[i].token_type = "LeftParen"
            /\ i + 4 <= Len(tokens)
            /\ tokens[i + 1].token_type = "Number"
            /\ tokens[i + 2].token_type \in BinaryOperators
            /\ tokens[i + 3].token_type = "Number"
            /\ tokens[i + 4].token_type = "RightParen"
    THEN [ok |-> TRUE,
          node |-> ExprGrouping(ExprBinary(ExprLiteral(tokens[i + 1].literal), tokens[i + 2],
                                           ExprLiteral(tokens[i + 3].literal))),
          next |-> i + 5]
    ELSE [ok |-> FALSE]

\* the operands and operators of the chain that starts at tokens[i]
RECURSIVE ReadChain(_, _, _, _)
ReadChain(tokens, i, operands, operators) ==
    LET o == ReadOperand(tokens, i)
    IN  IF ~o.ok THEN [ok |-> FALSE]
        ELSE IF tokens[o.next].token_type \in BinaryOperators \cup {"Equal"}
        THEN ReadChain(tokens, o.next + 1, Append(operands, o.node),
                       Append(operators, tokens[o.next]))
        ELSE IF tokens[o.next].token_type = "Semicolon" /\ o.next + 1 = Len(tokens)
        THEN [ok |-> TRUE, operands |-> Append(operands, o.node), operators |-> operators]
        ELSE [ok |-> FALSE]

\* the chain the tokens of the parser are, if they are one
Chain == ReadChain(parser.tokens, 1, <<>>, <<>>)

Precedence(operator) ==
    CASE operator.token_type \in {"Star", "Slash"} -> 4
      [] operator.token_type \in {"Plus", "Minus"} -> 3
      [] operator.token_type \in {"Less", "LessEqual", "Greater", "GreaterEqual"} -> 2
      [] operator.token_type \in {"EqualEqual", "BangEqual"} -> 1

\* the sequence s without its element i
Without(s, i) == SubSeq(s, 1, i - 1) \o SubSeq(s, i + 1, Len(s))

\* the tree of a chain of binary operators: the leftmost of the tightest
\* operators takes its two neighbours first
RECURSIVE Fold(_, _)
Fold(operands, operators) ==
    IF operators = <<>> THEN operands[1]
    ELSE LET tightest == CHOOSE i \in 1..Len(operators) :
                 \A j \in 1..Len(operators) :
                     \/ Precedence(operators[j]) < Precedence(operators[i])
                     \/ Precedence(operators[j]) = Precedence(operators[i]) /\ i <= j
         IN  Fold([Without(operands, tightest + 1) EXCEPT ![tightest] =
                       ExprBinary(operands[tightest], operators[tightest],
                                  operands[tightest + 1])],
                  Without(operators, tightest))

\* C17: an expression statement of operands joined by binary operators of
\* the levels factor, term, comparison and equality is parsed, without any
\* report, to the tree in which a tighter operator takes its operands first
\* and operators of one level associate to the left; a parenthesized operand
\* is a Grouping.
C17_PrecedenceAndLeftAssociativity ==
    (/\ parse_log # <<>>
     /\ Chain.ok
     /\ \A i \in 1..Len(Chain.operators) : Chain.operators[i].token_type # "Equal") =>
        /\ parse_log[1].some
        /\ parse_log[1].reports = <<>>
        /\ parse_log[1].node = StmtExpression(Fold(Chain.operands, Chain.operators))

\* `1 + (2 * 3);` was parsed to Binary(1, +, Grouping(Binary(2, *, 3))), and
\* a chain of two operators of one level was parsed to a left-nested Binary
C17_Witness ==
    /\ parse_control = "returned"
    /\ \/ statements =
              <<StmtExpression(
                    ExprBinary(Lit(Number(1)), Tok("Plus", "+"),
                               ExprGrouping(ExprBinary(Lit(Number(2)), Tok("Star", "*"),
                                                       Lit(Number(3))))))>>
       \/ statements =
              <<StmtExpression(
                    ExprBinary(ExprBinary(VarA, Tok("Minus", "-"), Lit(Number(1))),
                               Tok("Minus", "-"), Lit(Number(1))))>>

\* the first `=` of the operators, 0 when there is none
FirstEqual(operators) ==
    IF \E i \in 1..Len(operators) : operators[i].token_type = "Equal"
    THEN CHOOSE i \in 1..Len(operators) :
             /\ operators[i].token_type = "Equal"
             /\ \A j \in 1..(i - 1) : operators[j].token_type # "Equal"
    ELSE 0

\* the tree of a chain with assignments: what is left of the first `=` is the
\* target, what is right of it the value; a target that is no variable is the
\* result itself
RECURSIVE AssignmentTree(_, _)
AssignmentTree(operands, operators) ==
    LET i == FirstEqual(operators)
        target == Fold(SubSeq(operands, 1, i), SubSeq(operators, 1, i - 1))
        value == AssignmentTree(SubSeq(operands, i + 1, Len(operands)),
                                SubSeq(operators, i + 1, Len(operators)))
    IN  IF i = 0 THEN Fold(operands, operators)
        ELSE IF target.type = "Variable" THEN ExprAssignment(target.name, value)
        ELSE target

\* the number of `=` whose target is no variable
RECURSIVE InvalidTargets(_, _)
InvalidTargets(operands, operators) ==
    LET i == FirstEqual(operators)
        target == Fold(SubSeq(operands, 1, i), SubSeq(operators, 1, i - 1))
    IN  IF i = 0 THEN 0
        ELSE (IF target.type = "Variable" THEN 0 ELSE 1)
                 + InvalidTargets(SubSeq(operands, i + 1, Len(operands)),
                                  SubSeq(operators, i + 1, Len(operators)))

\* C18: an expression statement with `=` in it is parsed to one statement:
\* the assignments nest to the right; an `=` whose left side is no bare
\* variable reports "Invalid assignment target" at the `=` once, raises no
\* ParseError (the declaration returns Some and nothing is skipped), and the
\* left expression is the result.
C18_AssignmentRightAssociative ==
    (/\ parse_log # <<>>
     /\ Chain.ok
     /\ FirstEqual(Chain.operators) # 0) =>
        /\ parse_log[1].some
        /\ parse_log[1].end = Len(parser.tokens) - 1
        /\ parse_log[1].node = StmtExpression(AssignmentTree(Chain.operands, Chain.operators))
        /\ Len(parse_log[1].reports) = InvalidTargets(Chain.operands, Chain.operators)
        /\ \A i \in 1..Len(parse_log[1].reports) :
               parse_log[1].reports[i] = ReportLine(1, " at '='", "Invalid assignment target")

\* `a = a = 1;` was parsed to Assignment(a, Assignment(a, 1)), or `1 = a;`
\* was parsed to the statement 1 with one report
C18_Witness ==
    /\ parse_control = "returned"
    /\ \/ statements =
              <<StmtExpression(ExprAssignment(Ident("a"),
                                              ExprAssignment(Ident("a"), Lit(Number(1)))))>>
       \/ /\ statements = <<StmtExpression(Lit(Number(1)))>>
          /\ parser.reported = <<ReportLine(1, " at '='", "Invalid assignment target")>>

\* the number of arguments of the call `a ( 1 , ... , 1 ) ;` the tokens of the
\* parser are
CallArity == (Len(parser.tokens) - 4) \div 2

IsCallSource ==
    /\ Len(parser.tokens) >= 5
    /\ parser.tokens[1].token_type = "Identifier"
    /\ parser.tokens[2].token_type = "LeftParen"

\* C19: a call with at most 255 arguments is parsed without any report, a
\* call with more than 255 arguments reports "Too many arguments" without
\* failing, and in both cases the declaration is the Call node with all the
\* arguments in order.
C19_ArgumentCap ==
    (parse_log # <<>> /\ IsCallSource) =>
        /\ parse_log[1].some
        /\ parse_log[1].node =
               StmtExpression(ExprCall(VarA, parser.tokens[Len(parser.tokens) - 2],
                                       [i \in 1..CallArity |-> Lit(Number(1))]))
        /\ CallArity <= MaxArgs => parse_log[1].reports = <<>>
        /\ CallArity > MaxArgs =>
               /\ parse_log[1].reports # <<>>
               /\ \A i \in 1..Len(parse_log[1].reports) :
                      parse_log[1].reports[i][6] = "Too many arguments in function call."

\* the same with the cap one lower, as finish_call has it: the report is made
\* from the 255th argument on, once for each argument from there
C19_ArgumentCapFrom255 ==
    (parse_log # <<>> /\ IsCallSource) =>
        /\ parse_log[1].some
        /\ parse_log[1].node =
               StmtExpression(ExprCall(VarA, parser.tokens[Len(parser.tokens) - 2],
                                       [i \in 1..CallArity |-> Lit(Number(1))]))
        /\ Len(parse_log[1].reports) =
               (IF CallArity >= MaxArgs THEN CallArity - MaxArgs + 1 ELSE 0)
        /\ \A i \in 1..Len(parse_log[1].reports) :
               parse_log[1].reports[i][6] = "Too many arguments in function call."

\* the same for parse: a second call of parse on the same tokens returns the
\* statements the first call returned
C25_SecondParseIdentical ==
    [][parse_control' = "returned again" => statements' = statements]_vars

\* what the second call returns: no statement, the cursor being at Eof
C25_SecondParseEmpty ==
    [][parse_control' = "returned again" => statements' = <<>> /\ parser' = parser]_vars

\* the index of the last token, Eof
EofIndex == Len(parser.tokens) - 1

\* C36: no declaration loop, of parse or of a block, gets stuck: every
\* iteration of the loop of parse moves the cursor forward, by consuming
\* tokens on success and, on a parse error, by the advance of synchronize
\* unless the error was raised at Eof; so parse runs at most as many
\* iterations as there are tokens before Eof, and it returns with the cursor
\* at Eof.
C36_ParseTerminates ==
    /\ ~parser.stuck
    /\ parse_control # "hung"
    /\ Len(parse_log) <= EofIndex
    /\ \A k \in 1..Len(parse_log) :
           /\ parse_log[k].start < parse_log[k].end
           /\ ~parse_log[k].some =>
                  \/ parse_log[k].error_at < parse_log[k].end
                  \/ TokenAt(parse_log[k].error_at).token_type = "Eof"
    /\ parse_control = "parse" =>
           parser.current = (IF parse_log = <<>> THEN 0
                             ELSE parse_log[Len(parse_log)].end)
    /\ parse_control \in {"returned", "returned again"} => ParserIsAtEnd(parser)

\* parse returned after an error that synchronize skipped tokens for and
\* after one raised at Eof, where synchronize cannot advance
C36_Witness ==
    /\ parse_control = "returned"
    /\ \E k \in 1..Len(parse_log) :
           ~parse_log[k].some /\ parse_log[k].error_at < parse_log[k].end
    /\ \E k \in 1..Len(parse_log) :
           /\ ~parse_log[k].some
           /\ parse_log[k].error_at = EofIndex
           /\ parse_log[k].end = EofIndex

\* C37: previous() is never called while current is 0, and the cursor is
\* always the index of a token: it is never beyond the one of Eof, the only
\* Eof of the sequence, where is_at_end holds and advance leaves it.
C37_CursorWithinTokens ==
    /\ ~parser.panicked
    /\ parse_control # "panicked"
    /\ parser.current \in 0..EofIndex
    /\ ParserIsAtEnd(parser) <=> parser.current = EofIndex
    /\ ParserAdvance(parser).current =
           (IF parser.current = EofIndex THEN EofIndex ELSE parser.current + 1)
    /\ \A k \in 1..Len(parse_log) :
           /\ parse_log[k].end \in 1..EofIndex
           /\ ~parse_log[k].some => parse_log[k].error_at \in 0..EofIndex

\* synchronize called advance at Eof, after an error raised there, and an
\* error at the first token was recovered from
C37_Witness ==
    /\ parse_control = "returned"
    /\ ~parser.panicked
    /\ \E k \in 1..Len(parse_log) :
           ~parse_log[k].some /\ parse_log[k].error_at = 0
    /\ \E k \in 1..Len(parse_log) :
           ~parse_log[k].some /\ parse_log[k].error_at = EofIndex

(***************************************************************************)
(* Properties of run() (SpecRun)                                           *)
(***************************************************************************)

\* C4: when the scanner or the parser recorded a compile-time error,
\* interpret is never started: no statement is executed and nothing is printed.
C4_NoEvaluationAfterCompileError ==
    (scanner.error_reporter.had_error \/ parser.error_reporter.had_error) =>
        /\ control = "idle"
        /\ executed = <<>>
        /\ stdout = <<>>
        /\ run_pc = "exited" => exit_code = 65

\* the process exited with 65 on a syntax error of a source without lexical
\* error whose parse still returned a statement
C4_Witness ==
    /\ run_pc = "exited"
    /\ exit_code = 65
    /\ ~scanner.error_reporter.had_error
    /\ parser.error_reporter.had_error
    /\ statements # <<>>

\* C5: a lexical error does not keep the parser from running: when the
\* process exits because of a compile-time error, the parser has run over the
\* scanner's tokens.
C5_ParserRunsAfterLexicalError ==
    (run_pc = "exited" /\ scanner.error_reporter.had_error) =>
        parser.tokens = scanner.tokens

\* the three reporters of run(): the scanner's, the parser's, the interpreter's
HadError ==
    \/ scanner.error_reporter.had_error
    \/ parser.error_reporter.had_error
    \/ interpreter.error_reporter.had_error

HadRuntimeError ==
    \/ scanner.error_reporter.had_runtime_error
    \/ parser.error_reporter.had_runtime_error
    \/ interpreter.error_reporter.had_runtime_error

\* C33: in every step of run(): had_error is set exactly on the reporters
\* that error or error_at_token reported on (the scanner's and the parser's),
\* had_runtime_error exactly on the one runtime_error reported on (the
\* interpreter's); a flag that is set stays set; the process exits with 65
\* when had_error is set after a phase, with 70 when had_runtime_error is,
\* and run returns without exit when no flag is set.
C33_ErrorFlagsDecideExit ==
    [][/\ (scanner.error_reporter.had_error <=> scanner.reported # <<>>)'
       /\ (parser.error_reporter.had_error <=> parser.reported # <<>>)'
       /\ (interpreter.error_reporter.had_runtime_error <=> stderr # <<>>)'
       /\ ~scanner'.error_reporter.had_runtime_error
       /\ ~parser'.error_reporter.had_runtime_error
       /\ ~interpreter'.error_reporter.had_error
       /\ scanner.error_reporter.had_error => scanner'.error_reporter.had_error
       /\ parser.error_reporter.had_error => parser'.error_reporter.had_error
       /\ interpreter.error_reporter.had_runtime_error =>
              interpreter'.error_reporter.had_runtime_error
       /\ run_pc' = "exited" =>
              /\ HadError' \/ HadRuntimeError'
              /\ exit_code' = (IF HadError' THEN 65 ELSE 70)
       /\ run_pc' \in {"parse", "interpret", "returned"} => ~HadError'
       /\ run_pc' = "returned" => ~HadRuntimeError' /\ exit_code' = -1
      ]_vars

\* the process exited with 70 after a runtime error was reported
C33_Witness ==
    /\ run_pc = "exited"
    /\ exit_code = 70
    /\ interpreter.error_reporter.had_runtime_error
    /\ ~HadError
    /\ stderr # <<>>

====
